---------------------------- MODULE Spec2Model ----------------------------
(***************************************************************************)
(* MeowPDF: the image registry kept by Viewer::display_pages together with *)
(* the page rendering thread of Viewer::run (src/src/viewer.rs), and the   *)
(* rasterizer worker with its priority channels                            *)
(* (src/src/threads/renderer.rs, src/src/drivers/priority_channel.rs).     *)
(*                                                                         *)
(* Pages are indexed from 0 as in the source; TLA+ sequences are indexed   *)
(* from 1, so page p of a document d is d[p + 1].                          *)
(***************************************************************************)
EXTENDS Integers, Sequences, FiniteSets, TLC

(***************************************************************************)
(* Bounds and inputs                                                       *)
(***************************************************************************)

\* Number of reload requests the environment may issue (caps the load counter).
MaxReloads == 2

\* config.viewer.memory_limit, in bytes (the value of the eviction scenario).
memory_limit == 1000

\* config.viewer.pages_preloaded.
pages_preloaded == 3

\* The viewer scale; the registry model keeps the zoom fixed.
scale == 1

\* TERMINAL_SIZE: only the pixel height is read by display_pages.
TERMINAL_SIZE == [ws_ypixel |-> 10]

\* Height of every page plus config.viewer.margin_bottom, in page units.
PageHeightWithMargin == [height |-> 10]

\* The documents the watched file may hold: the byte size Image::size() of the
\* bitmap of each page, in page order.
Docs == { <<400, 400, 400>>, <<1000, 300>> }

\* Number of actions the caller submits to the rasterizer worker.
MaxSends == 3

\* Page counts the file read by the rasterizer worker may have, and the pages
\* the caller asks it to display.
PdfPageCounts == {1, 2}
DisplayPages == {0, 1}

\* The document of the eviction scenario: pages A, B, C, D of 400 bytes each.
ScenarioDoc == <<400, 400, 400, 400>>

(***************************************************************************)
(* State                                                                   *)
(***************************************************************************)
VARIABLES
    \* ---- Viewer (main thread), src/src/viewer.rs
    images,                 \* HashMap page -> image [size, ver]
    invalidated,            \* set of pages
    scheduled4render,       \* set of pages
    memory_used,
    last_rendered,          \* VecDeque of pages
    m_pc,                   \* position of the main thread in display_pages
    \* ---- ViewerOffset, shared under an RwLock
    cumulative_heights,
    offset_y,
    page_first,
    \* ---- channels of Viewer::run
    receive_render_init,    \* pending () on reload_initiator
    receive_display,        \* pending page indices on render_scheduler
    image_channel,          \* pending (page, Option<image>)
    reload_informer_internal, \* pending () of the reload broadcast
    \* ---- render thread of Viewer::run
    t_pc,
    cache,                  \* the loaded pages (the document as last opened)
    t_ver,                  \* number of reload_document!() runs that replaced cache
    \* ---- environment
    file,                   \* the document currently on disk
    reloads,                \* reload requests issued so far
    \* ---- observers (history, not program state)
    seen_ver,               \* reload notifications consumed by display_pages
    scenario,               \* progress of the eviction scenario A,B,C,D
    last_event,             \* the last operation applied to the registry
    order,                  \* held pages, by insertion time of the held image
    \* ---- Renderer, src/src/threads/renderer.rs
    requests,               \* priority_client_sender -> priority_server_receiver
    accepted,               \* general_server_sender -> general_client_receiver
    results,                \* result_server_sender -> result_client_receiver
    w_pc,                   \* position of the worker in its loop
    action,                 \* the worker's local `action`
    alpha,
    inverse,
    page_cache,             \* state.cache, as its number of pages
    pdf_pages,              \* number of pages of the file on disk
    c_pc,                   \* position of the caller of send_and_confirm_action
    c_action,               \* the action the caller waits for
    c_result,               \* what the last send_and_confirm_action returned
    sends,                  \* actions submitted so far
    \* ---- the viewport: ViewerOffset in full, and TERMINAL_SIZE
    vo,                     \* ViewerOffset: scale, page_first, page_view, offset, ...
    winsize,                \* TERMINAL_SIZE: ws_xpixel, ws_ypixel
    vo_event,               \* observer: the last viewport operation
    query,                  \* observer: the last offset2page(offset) evaluated
    \* ---- Image ids and the temp files of the graphics adapter
    ID,                     \* static ID: AtomicUsize of Image::new
    files,                  \* ids whose temp file exists
    tty,                    \* transfer commands written to the terminal, unread
    stdout_lock,            \* owner of stdout().lock(), or "none"
    g_pc,                   \* per thread: position in Image::new / transfer
    g_img,                  \* per thread: the id of the image in hand
    g_tmp,                  \* per thread: the value read by ID.load() for the store
    known,                  \* ids of the images the main thread holds
    transfers,              \* re-transfers started so far
    made,                   \* observer: ids given to images, in construction order
    failed,                 \* observer: ids whose construction failed at transfer
    \* ---- one frame of display_pages: the display half of load_or_display!
    f_pc,                   \* position of the main thread in the frame
    f_index,                \* page_index
    f_doff,                 \* displayed_offset, in half pixels
    f_n,                    \* preload iterations left
    visited,                \* << page, top * 2, preload, height read >> per load_or_display!
    f_h,                    \* ws_ypixel read by the test that ended the loop
    displayed,              \* the Vec<usize> display_pages returns
    written,                \* observer: display commands written to the terminal
    \* ---- failed acknowledgements: Viewer::schedule_transfer
    retransferred,          \* observer: pages whose bitmap was transferred again
    wakes,                  \* () sent on rerender_initializer by schedule_transfer
    \* ---- config migration: fix_config_toml, src/src/config.rs
    cfg_current,            \* the table `current`, as it is now
    cfg_default,            \* the table `default`
    cfg_input,              \* observer: `current` before the first call
    cfg_prev,               \* observer: `current` before the last call
    cfg_changed,            \* what the last call returned
    cfg_runs,               \* calls made so far
    \* ---- throttled actions: has_elapsed!, src/src/globals.rs
    th_now,                 \* the system clock, in units of 100 ms
    th_var,                 \* per throttled action: the SystemTime of its window
    th_pc,                  \* position of the main thread in has_elapsed!
    th_a,                   \* the action being attempted
    th_at,                  \* the clock when $var.elapsed() was read
    th_acc,                 \* observer: per action, when it was last accepted (-1: never)
    th_try,                 \* observer: the last attempt << action, at, since, ok >>
    \* ---- quit: RUNNING and the loops of the background threads
    RUNNING,                \* static RUNNING: AtomicBool
    stdin_pc,               \* input reader: "check", "read" or "exit"
    stdin_bytes,            \* bytes waiting on stdin
    ws_pc,                  \* window-size poller: "check", "sleep" or "exit"
    rw_pc,                  \* rasterizer worker: "check", "ready" or "exit"
    rw_queue,               \* actions waiting in the worker's channels
    q_typed,                \* bytes typed so far
    q_sent,                 \* actions sent to the worker so far
    \* ---- Image::display: the crop rectangle
    IMAGE_PADDING,          \* the global padding P, set once at startup
    d_x,                    \* x, y: the display position in pixels
    d_y,
    d_sc,                   \* scale, in halves
    d_page,                 \* the page whose image is displayed
    d_out,                  \* observer: what the last Image::display computed
    \* ---- the registry under any byte budget
    bg_limit,               \* config.viewer.memory_limit
    bg_images,              \* images: page -> [size, ver]
    bg_invalidated,         \* invalidated
    bg_memory_used,         \* memory_used
    bg_last_rendered,       \* last_rendered
    bg_pc,                  \* "run", or "panic" after pop_front().unwrap() on an empty queue
    bg_ops,                 \* registry operations so far
    \* ---- the window-size poller and its notifications
    tty_size,               \* the size terminal_tui_get_dimensions returns
    p_wz,                   \* poller: wz, the last size it has seen
    p_pc,                   \* poller: "sleep", "send" or "store"
    notify,                 \* () messages queued on sender_winsize
    p_stored,               \* stores into TERMINAL_SIZE completed
    m_received,             \* notifications the main loop has received
    m_frame,                \* observer: << notification, stores completed, size read >> of the last frame
    resizes,                \* resizes of the terminal so far
    \* ---- Image::new on two threads: the id counter
    a_pc,                   \* per thread: "idle", "load" or "store"
    a_tmp,                  \* per thread: the value of ID.load() inside the store
    a_made                  \* observer: the ids given, in the order of their loads

viewer_vars == << images, invalidated, scheduled4render, memory_used, last_rendered,
                  m_pc, cumulative_heights, offset_y, page_first,
                  receive_render_init, receive_display, image_channel,
                  reload_informer_internal, t_pc, cache, t_ver, file, reloads,
                  seen_ver, scenario, last_event, order >>

renderer_vars == << requests, accepted, results, w_pc, action, alpha, inverse,
                    page_cache, pdf_pages, c_pc, c_action, c_result, sends >>

view_vars == << vo, winsize, vo_event, query >>
image_vars == << ID, files, tty, stdout_lock, g_pc, g_img, g_tmp, known, transfers,
                made, failed >>
frame_vars == << f_pc, f_index, f_doff, f_n, visited, f_h, displayed, written >>
ack_vars == << retransferred, wakes >>
cfg_vars == << cfg_current, cfg_default, cfg_input, cfg_prev, cfg_changed, cfg_runs >>
th_vars == << th_now, th_var, th_pc, th_a, th_at, th_acc, th_try >>
quit_vars == << RUNNING, stdin_pc, stdin_bytes, ws_pc, rw_pc, rw_queue, q_typed,
               q_sent >>
crop_vars == << IMAGE_PADDING, d_x, d_y, d_sc, d_page, d_out >>
budget_vars == << bg_limit, bg_images, bg_invalidated, bg_memory_used, bg_last_rendered, bg_pc, bg_ops >>
poll_vars == << tty_size, p_wz, p_pc, notify, p_stored, m_received, m_frame, resizes >>
alloc_vars == << a_pc, a_tmp, a_made >>
ext_vars == << frame_vars, ack_vars, cfg_vars, th_vars, quit_vars, crop_vars, budget_vars, poll_vars, alloc_vars >>
frame_rest == << ack_vars, cfg_vars, th_vars, quit_vars, crop_vars, budget_vars, poll_vars, alloc_vars >>
ack_rest == << frame_vars, cfg_vars, th_vars, quit_vars, crop_vars, budget_vars, poll_vars, alloc_vars >>
cfg_rest == << frame_vars, ack_vars, th_vars, quit_vars, crop_vars, budget_vars, poll_vars, alloc_vars >>
th_rest == << frame_vars, ack_vars, cfg_vars, quit_vars, crop_vars, budget_vars, poll_vars, alloc_vars >>
quit_rest == << frame_vars, ack_vars, cfg_vars, th_vars, crop_vars, budget_vars, poll_vars, alloc_vars >>
crop_rest == << frame_vars, ack_vars, cfg_vars, th_vars, quit_vars, budget_vars, poll_vars, alloc_vars >>
budget_rest == << frame_vars, ack_vars, cfg_vars, th_vars, quit_vars, crop_vars, poll_vars, alloc_vars >>
poll_rest == << frame_vars, ack_vars, cfg_vars, th_vars, quit_vars, crop_vars, budget_vars, alloc_vars >>
alloc_rest == << frame_vars, ack_vars, cfg_vars, th_vars, quit_vars, crop_vars, budget_vars, poll_vars >>
vars == << viewer_vars, renderer_vars, view_vars, image_vars, ext_vars >>

(***************************************************************************)
(* Helpers                                                                 *)
(***************************************************************************)
Min(a, b) == IF a < b THEN a ELSE b
Max(a, b) == IF a > b THEN a ELSE b

\* The set of elements of a sequence.
Range(s) == { s[i] : i \in 1..Len(s) }

\* HashMap::contains_key on images.
Held == DOMAIN images

RECURSIVE SumSizes(_, _)
SumSizes(imgs, S) ==
    IF S = {} THEN 0
    ELSE LET p == CHOOSE q \in S : TRUE
         IN imgs[p].size + SumSizes(imgs, S \ {p})

\* Sum of Image::size() over the images held.
HeldBytes == SumSizes(images, DOMAIN images)

\* HashMap::insert and HashMap::remove.
MapInsert(m, k, v) == [q \in (DOMAIN m) \cup {k} |-> IF q = k THEN v ELSE m[q]]
MapRemove(m, k) == [q \in (DOMAIN m) \ {k} |-> m[q]]

EmptyMap == [q \in {} |-> 0]

(***************************************************************************)
(* ViewerOffset                                                            *)
(***************************************************************************)

\* cumulative_heights as built by reload_document!() for a document.
RECURSIVE CumulativeHeights(_)
CumulativeHeights(n) ==
    IF n = 0 THEN <<>>
    ELSE Append(CumulativeHeights(n - 1), n * PageHeightWithMargin.height)

\* An offset2page that answers the page after an exact hit.
offset2pageAfterHit(cum, off) ==
    Cardinality({ i \in 1..Len(cum) : cum[i] <= off })

\* ViewerOffset::offset2page: binary search; the index of an equal element, else
\* the insertion point (heights strictly increase, so the match is unique).
offset2page(cum, off) ==
    Cardinality({ i \in 1..Len(cum) : cum[i] < off })

\* ViewerOffset::page_height (the page must exist).
page_height(cum, page) ==
    cum[page + 1] - (IF page > 0 THEN cum[page] ELSE 0)

\* ViewerOffset::bound_viewer, vertical part: the new offset.1.
BoundOffsetY(cum, off) ==
    LET max_yoffset == Max(-10, cum[Len(cum)] - (TERMINAL_SIZE.ws_ypixel \div scale))
    IN Min(Max(off, -10), max_yoffset)

(***************************************************************************)
(* The frame of display_pages: which pages load_or_display! visits         *)
(***************************************************************************)
RECURSIVE VisiblePages(_, _, _)
VisiblePages(cum, page_index, displayed_offset) ==
    IF displayed_offset < TERMINAL_SIZE.ws_ypixel /\ page_index < Len(cum)
    THEN << page_index >> \o
         VisiblePages(cum, page_index + 1,
                      displayed_offset + page_height(cum, page_index) * scale)
    ELSE <<>>

\* The pages visited by load_or_display!, in order: the page before the first,
\* the first page, the following visible pages, the preloaded pages.
FramePages(cum, first, off) ==
    IF Len(cum) <= first THEN <<>>
    ELSE LET page_offset == off - (IF first = 0 THEN 0 ELSE cum[first])
             before == IF first > 0 THEN << first - 1 >> ELSE <<>>
             visible == VisiblePages(cum, first + 1,
                            (page_height(cum, first) - page_offset) * scale)
             next == first + 1 + Len(visible)
             n == Min(pages_preloaded, Len(cum) - next)
             preload == [i \in 1..n |-> next + i - 1]
         IN before \o << first >> \o visible \o preload

\* load_or_display!, the scheduling half, folded over the frame's pages:
\* the pair << scheduled4render, receive_display >> after the frame.
NeedsRenderUnscheduled(held, inval, sched, page) ==
    page \notin held \/ page \in inval

NeedsRender(held, inval, sched, page) ==
    (page \notin held \/ page \in inval) /\ page \notin sched

RECURSIVE LoadOrDisplay(_, _, _, _, _)
LoadOrDisplay(pages, held, inval, sched, queue) ==
    IF pages = <<>> THEN << sched, queue >>
    ELSE LET page == Head(pages)
         IN IF NeedsRender(held, inval, sched, page)
            THEN LoadOrDisplay(Tail(pages), held, inval,
                               sched \cup {page}, Append(queue, page))
            ELSE LoadOrDisplay(Tail(pages), held, inval, sched, queue)

(***************************************************************************)
(* The registry: insertion, eviction, removal                              *)
(***************************************************************************)

\* A removal that drops the image and forgets to release its bytes.
RemoveImageKeepMemory(imgs, mem, page) ==
    [images |-> MapRemove(imgs, page), memory_used |-> mem]

\* remove_image!: memory_used -= size; images.remove(page).
\* Indexing images[&page] panics when the page is not held.
RemoveImage(imgs, mem, page) ==
    [images |-> MapRemove(imgs, page), memory_used |-> mem - imgs[page].size]

\* A registry that evicts only while memory_used > memory_limit: the loop
\* condition of display_pages with > in place of >=.
RECURSIVE EvictAboveLimit(_, _, _)
EvictAboveLimit(imgs, mem, fifo) ==
    IF mem <= memory_limit
    THEN [images |-> imgs, memory_used |-> mem, last_rendered |-> fifo, panic |-> FALSE]
    ELSE IF fifo = <<>>
    THEN [images |-> imgs, memory_used |-> mem, last_rendered |-> fifo, panic |-> TRUE]
    ELSE LET page2remove == Head(fifo)
         IN IF page2remove \notin DOMAIN imgs
            THEN EvictAboveLimit(imgs, mem, Tail(fifo))
            ELSE EvictAboveLimit(MapRemove(imgs, page2remove),
                                 mem - imgs[page2remove].size, Tail(fifo))

\* A registry that inserts without running the eviction loop.
InsertImageNoEvict(imgs, mem, fifo, page, image) ==
    [images |-> MapInsert(imgs, page, image), memory_used |-> mem + image.size,
     last_rendered |-> Append(fifo, page), panic |-> FALSE]

\* The eviction loop of display_pages:
\*   while memory_used >= memory_limit { pop_front().unwrap(); skip if not held;
\*                                       remove_image! }
RECURSIVE Evict(_, _, _)
Evict(imgs, mem, fifo) ==
    IF mem < memory_limit
    THEN [images |-> imgs, memory_used |-> mem, last_rendered |-> fifo, panic |-> FALSE]
    ELSE IF fifo = <<>>
    THEN [images |-> imgs, memory_used |-> mem, last_rendered |-> fifo, panic |-> TRUE]
    ELSE LET page2remove == Head(fifo)
         IN IF page2remove \notin DOMAIN imgs
            THEN Evict(imgs, mem, Tail(fifo))
            ELSE LET r == RemoveImage(imgs, mem, page2remove)
                 IN Evict(r.images, r.memory_used, Tail(fifo))

\* The body of the receive loop for Some(image): lines 412-427.
InsertImage(imgs, mem, fifo, page, image) ==
    Evict(MapInsert(imgs, page, image), mem + image.size, Append(fifo, page))

(***************************************************************************)
(* Observer of the eviction scenario: four images of 400 bytes for pages   *)
(* A=0, B=1, C=2, D=3 inserted in this order into the empty registry, and  *)
(* nothing else done to the registry. scenario counts the insertions seen, *)
(* and is -1 once the run has left the scenario.                           *)
(***************************************************************************)
ScenarioPages == << 0, 1, 2, 3 >>

\* order after an image for `page` has been inserted and before any eviction.
InsertionOrder(ord, page) == Append(SelectSeq(ord, LAMBDA q : q # page), page)

ScenarioInsert(sc, page, size) ==
    IF sc >= 0 /\ sc < Len(ScenarioPages) /\ page = ScenarioPages[sc + 1] /\ size = 400
    THEN sc + 1 ELSE -1

(***************************************************************************)
(* Initial state: Viewer::new followed by Viewer::run, the render thread   *)
(* about to execute its first reload_document!().                          *)
(***************************************************************************)
ViewerInit(docs) ==
    /\ images = EmptyMap
    /\ invalidated = {}
    /\ scheduled4render = {}
    /\ memory_used = 0
    /\ last_rendered = <<>>
    /\ m_pc = "idle"
    /\ cumulative_heights = <<>>
    /\ offset_y = 0
    /\ page_first = 0
    /\ receive_render_init = 0
    /\ receive_display = <<>>
    /\ image_channel = <<>>
    /\ reload_informer_internal = 0
    /\ t_pc = "load"
    /\ cache = <<>>
    /\ t_ver = 0
    /\ file \in docs
    /\ reloads = 0
    /\ seen_ver = 0
    /\ scenario = 0
    /\ last_event = [size |-> 0, page |-> 0, op |-> "none"]
    /\ order = <<>>

\* A panic of the main thread ends the process.
Running == m_pc # "panic"

registry_vars == << images, invalidated, scheduled4render, memory_used, last_rendered >>
observer_vars == << seen_ver, scenario, last_event, order >>
offset_vars == << cumulative_heights, offset_y, page_first >>
thread_vars == << t_pc, cache, t_ver >>
env_vars == << file, reloads >>

(***************************************************************************)
(* Render thread of Viewer::run                                            *)
(***************************************************************************)

\* reload_document!(), first half: open the file and rebuild the page cache.
ThreadLoad ==
    /\ Running
    /\ t_pc = "load"
    /\ cache' = file
    /\ t_ver' = t_ver + 1
    /\ t_pc' = "bound"
    /\ UNCHANGED << registry_vars, m_pc, offset_vars, receive_render_init,
                    receive_display, image_channel, reload_informer_internal,
                    env_vars, observer_vars,
                    renderer_vars, view_vars, image_vars, ext_vars >>

\* A render thread that takes the offset without waiting for display_pages to
\* release it: ThreadBound without the lock.
ThreadBoundNoLock ==
    /\ Running
    /\ t_pc = "bound"
    /\ LET cum == CumulativeHeights(Len(cache))
           off == BoundOffsetY(cum, offset_y)
       IN /\ cumulative_heights' = cum
          /\ offset_y' = off
          /\ page_first' = offset2page(cum, off)
    /\ t_pc' = "inform"
    /\ UNCHANGED << registry_vars, m_pc, receive_render_init, receive_display,
                    image_channel, reload_informer_internal, cache, t_ver,
                    env_vars, observer_vars,
                    renderer_vars, view_vars, image_vars, ext_vars >>

\* reload_document!(), the block under offset.write(): display_pages holds
\* offset.read() from its first to its last line, so this waits for it.
ThreadBound ==
    /\ Running
    /\ t_pc = "bound"
    /\ m_pc = "idle"
    /\ LET cum == CumulativeHeights(Len(cache))
           off == BoundOffsetY(cum, offset_y)
       IN /\ cumulative_heights' = cum
          /\ offset_y' = off
          /\ page_first' = offset2page(cum, off)
    /\ t_pc' = "inform"
    /\ UNCHANGED << registry_vars, m_pc, receive_render_init, receive_display,
                    image_channel, reload_informer_internal, cache, t_ver,
                    env_vars, observer_vars,
                    renderer_vars, view_vars, image_vars, ext_vars >>

\* reload_document!(), last line: informer_broadcast.send(()).
ThreadInform ==
    /\ Running
    /\ t_pc = "inform"
    /\ reload_informer_internal' = reload_informer_internal + 1
    /\ t_pc' = "select"
    /\ UNCHANGED << registry_vars, m_pc, offset_vars, receive_render_init,
                    receive_display, image_channel, cache, t_ver, env_vars,
                    observer_vars,
                    renderer_vars, view_vars, image_vars, ext_vars >>

\* select_biased!, first arm: a pending reload request wins; reload_document!()
\* starts by opening the file and rebuilding the page cache.
ThreadSelectReload ==
    /\ Running
    /\ t_pc = "select"
    /\ receive_render_init > 0
    /\ receive_render_init' = receive_render_init - 1
    /\ cache' = file
    /\ t_ver' = t_ver + 1
    /\ t_pc' = "bound"
    /\ UNCHANGED << registry_vars, m_pc, offset_vars, receive_display,
                    image_channel, reload_informer_internal,
                    env_vars, observer_vars,
                    renderer_vars, view_vars, image_vars, ext_vars >>

\* select_biased!, second arm: render one page; ok = FALSE is a failure of
\* to_pixmap or Image::new, which sends nothing.
ThreadDisplay(ok) ==
    /\ Running
    /\ t_pc = "select"
    /\ receive_render_init = 0
    /\ receive_display # <<>>
    /\ LET page_unwrap == Head(receive_display)
       IN /\ receive_display' = Tail(receive_display)
          /\ IF page_unwrap >= Len(cache)
             THEN image_channel' =
                      Append(image_channel, [size |-> 0, page |-> page_unwrap,
                                             some |-> FALSE, ver |-> t_ver])
             ELSE IF ok
             THEN image_channel' =
                      Append(image_channel, [size |-> cache[page_unwrap + 1],
                                             page |-> page_unwrap,
                                             some |-> TRUE, ver |-> t_ver])
             ELSE UNCHANGED image_channel
    /\ UNCHANGED << registry_vars, m_pc, offset_vars, receive_render_init,
                    reload_informer_internal, thread_vars, env_vars,
                    observer_vars,
                    renderer_vars, view_vars, image_vars, ext_vars >>

(***************************************************************************)
(* Main thread: Viewer::display_pages and the viewport                     *)
(***************************************************************************)

\* display_pages is entered with its first try_recv (m_pc = "idle"); it holds
\* offset.read() until it returns.

\* One iteration of `while let Ok((page, image)) = image_channel.try_recv()`
\* with image = None: remove_image!, which panics when the page is not held.
ReceiveNone ==
    /\ m_pc \in {"idle", "drain"}
    /\ image_channel # <<>>
    /\ ~Head(image_channel).some
    /\ LET page == Head(image_channel).page
       IN /\ IF page \notin Held
             THEN /\ m_pc' = "panic"
                  /\ UNCHANGED << images, memory_used >>
             ELSE LET r == RemoveImage(images, memory_used, page)
                  IN /\ images' = r.images
                     /\ memory_used' = r.memory_used
                     /\ m_pc' = "drain"
          /\ last_event' = [size |-> 0, page |-> page, op |-> "remove"]
          /\ order' = SelectSeq(order, LAMBDA q : q # page)
    /\ image_channel' = Tail(image_channel)
    /\ scenario' = -1
    /\ UNCHANGED << invalidated, scheduled4render, last_rendered, offset_vars,
                    receive_render_init, receive_display, reload_informer_internal,
                    thread_vars, env_vars, seen_ver,
                    renderer_vars, view_vars, image_vars, ext_vars >>

\* One iteration of the receive loop with image = Some(..): insert and evict.
ReceiveImage ==
    /\ m_pc \in {"idle", "drain"}
    /\ image_channel # <<>>
    /\ Head(image_channel).some
    /\ LET msg == Head(image_channel)
           r == InsertImage(images, memory_used, last_rendered, msg.page,
                            [size |-> msg.size, ver |-> msg.ver])
       IN /\ invalidated' = invalidated \ {msg.page}
          /\ scheduled4render' = scheduled4render \ {msg.page}
          /\ images' = r.images
          /\ memory_used' = r.memory_used
          /\ last_rendered' = r.last_rendered
          /\ m_pc' = IF r.panic THEN "panic" ELSE "drain"
          /\ scenario' = ScenarioInsert(scenario, msg.page, msg.size)
          /\ last_event' = [size |-> msg.size, page |-> msg.page, op |-> "insert"]
          /\ order' = SelectSeq(InsertionOrder(order, msg.page),
                                LAMBDA q : q \in DOMAIN r.images)
    /\ image_channel' = Tail(image_channel)
    /\ UNCHANGED << offset_vars, receive_render_init, receive_display,
                    reload_informer_internal, thread_vars, env_vars, seen_ver,
                    renderer_vars, view_vars, image_vars, ext_vars >>

\* try_recv fails: the receive loop ends.
ReceiveEnd ==
    /\ m_pc \in {"idle", "drain"}
    /\ image_channel = <<>>
    /\ m_pc' = "reload"
    /\ UNCHANGED << registry_vars, offset_vars, receive_render_init, receive_display,
                    image_channel, reload_informer_internal, thread_vars, env_vars,
                    observer_vars,
                    renderer_vars, view_vars, image_vars, ext_vars >>

\* The rest of display_pages: the reload check with the invalidation of every
\* held image, then load_or_display! over the pages of the frame.
DisplayPagesFrame ==
    /\ m_pc = "reload"
    /\ LET reload == reload_informer_internal > 0
           inval == IF reload THEN invalidated \cup Held ELSE invalidated
       IN /\ reload_informer_internal' =
                 IF reload THEN reload_informer_internal - 1
                 ELSE reload_informer_internal
          /\ seen_ver' = IF reload THEN seen_ver + 1 ELSE seen_ver
          /\ scenario' = IF reload /\ Held # {} THEN -1 ELSE scenario
          /\ last_event' = IF reload
                           THEN [size |-> 0, page |-> 0, op |-> "invalidate"]
                           ELSE last_event
          /\ invalidated' = inval
          /\ LET pages == FramePages(cumulative_heights, page_first, offset_y)
                 r == LoadOrDisplay(pages, Held, inval, scheduled4render,
                                    receive_display)
             IN /\ scheduled4render' = r[1]
                /\ receive_display' = r[2]
    /\ m_pc' = "idle"
    /\ UNCHANGED << images, memory_used, last_rendered, offset_vars,
                    receive_render_init, image_channel, thread_vars, env_vars,
                    order,
                    renderer_vars, view_vars, image_vars, ext_vars >>

(***************************************************************************)
(* Environment: the watched file changes, and a reload is requested        *)
(***************************************************************************)
FileChange(d) ==
    /\ Running
    /\ file # d
    /\ file' = d
    /\ UNCHANGED << registry_vars, m_pc, offset_vars, receive_render_init,
                    receive_display, image_channel, reload_informer_internal,
                    thread_vars, reloads, observer_vars,
                    renderer_vars, view_vars, image_vars, ext_vars >>

\* reload_initiator.send(()).
ReloadInitiate ==
    /\ Running
    /\ reloads < MaxReloads
    /\ reloads' = reloads + 1
    /\ receive_render_init' = receive_render_init + 1
    /\ UNCHANGED << registry_vars, m_pc, offset_vars, receive_display,
                    image_channel, reload_informer_internal, thread_vars, file,
                    observer_vars,
                    renderer_vars, view_vars, image_vars, ext_vars >>

(***************************************************************************)
(* Rasterizer worker: Renderer and its priority channels                   *)
(***************************************************************************)
Load == [page |-> 0, kind |-> "Load", old |-> FALSE]
ToggleAlpha == [page |-> 0, kind |-> "ToggleAlpha", old |-> FALSE]
ToggleInverse == [page |-> 0, kind |-> "ToggleInverse", old |-> FALSE]
\* `old` is history: the request was pending when a toggle was processed.
Display(page) == [page |-> page, kind |-> "Display", old |-> FALSE]

ControlActions == {Load, ToggleAlpha, ToggleInverse}

\* PrioritySender::try_send_priority on unbounded channels.
try_send_priority(chans, obj, priority) ==
    [chans EXCEPT ![priority] = Append(@, obj)]

\* PriorityReceiver::clear_priority: clear_channel! receives until empty.
clear_priority(chans, priority) == [chans EXCEPT ![priority] = <<>>]

\* Select::new_biased over receivers[0], receivers[1]: ready() is the lowest
\* index with a message (defined when one has).
BiasedReady(chans) == IF chans[0] # <<>> THEN 0 ELSE 1

\* Some control action is pending in the request channels.
ControlPending ==
    \E k \in {0, 1} : \E i \in 1..Len(requests[k]) : requests[k][i].kind # "Display"

\* Marks the Display requests of a channel as pending at a toggle.
MarkOld(q) == [i \in 1..Len(q) |-> [q[i] EXCEPT !.old = (q[i].kind = "Display")]]

\* Renderer::new: the channels are empty; RendererInnerState::new: the cache
\* is empty and both flags are false.
RendererInit(counts) ==
    /\ requests = [k \in {0, 1} |-> <<>>]
    /\ accepted = <<>>
    /\ results = [k \in {0, 1} |-> <<>>]
    /\ w_pc = "recv"
    /\ action = Load
    /\ alpha = FALSE
    /\ inverse = FALSE
    /\ page_cache = 0
    /\ pdf_pages \in counts
    /\ c_pc = "ready"
    /\ c_action = Load
    /\ c_result = "none"
    /\ sends = 0

channel_vars == << requests, accepted, results >>
worker_vars == << w_pc, action, alpha, inverse, page_cache >>
caller_vars == << c_pc, c_action, c_result, sends >>

\* Renderer::send_action: a Display is sent with priority 0; a control action
\* is refused.
SendAction(a) ==
    /\ c_pc = "ready"
    /\ sends < MaxSends
    /\ a.kind = "Display"
    /\ requests' = try_send_priority(requests, a, 0)
    /\ sends' = sends + 1
    /\ UNCHANGED << accepted, results, worker_vars, pdf_pages, c_pc, c_action,
                    c_result, viewer_vars, view_vars, image_vars, ext_vars >>

\* Renderer::send_and_confirm_action, up to the blocking recv: a control action
\* is sent with priority 0; a Display is refused.
SendAndConfirmAction(a) ==
    /\ c_pc = "ready"
    /\ sends < MaxSends
    /\ a.kind # "Display"
    /\ requests' = try_send_priority(requests, a, 0)
    /\ sends' = sends + 1
    /\ c_pc' = "confirm"
    /\ c_action' = a
    /\ UNCHANGED << accepted, results, worker_vars, pdf_pages, c_result,
                    viewer_vars, view_vars, image_vars, ext_vars >>

\* Renderer::send_and_confirm_action, from general_client_receiver.recv() on.
ConfirmAction ==
    /\ c_pc = "confirm"
    /\ accepted # <<>>
    /\ accepted' = Tail(accepted)
    /\ c_result' = IF Head(accepted) # c_action THEN "Err" ELSE "Ok"
    /\ c_pc' = "ready"
    /\ UNCHANGED << requests, results, worker_vars, pdf_pages, c_action, sends,
                    viewer_vars, view_vars, image_vars, ext_vars >>

\* Worker loop: recv_priority(sel.ready()) yields a control action, which is
\* echoed on the accepted channel.
WorkerRecvControl ==
    /\ w_pc = "recv"
    /\ \E k \in {0, 1} : requests[k] # <<>>
    /\ LET k == BiasedReady(requests)
           a == Head(requests[k])
       IN /\ a.kind # "Display"
          /\ requests' = [requests EXCEPT ![k] = Tail(@)]
          /\ action' = a
          /\ accepted' = Append(accepted, a)
          /\ w_pc' = "exec"
    /\ UNCHANGED << results, alpha, inverse, page_cache, pdf_pages, caller_vars,
                    viewer_vars, view_vars, image_vars, ext_vars >>

\* A worker that skips a Display of a page outside the cache without a result.
WorkerDisplaySilent(ok) ==
    /\ w_pc = "recv"
    /\ \E k \in {0, 1} : requests[k] # <<>>
    /\ LET k == BiasedReady(requests)
           a == Head(requests[k])
       IN /\ a.kind = "Display"
          /\ requests' = [requests EXCEPT ![k] = Tail(@)]
          /\ action' = a
          /\ IF a.page < page_cache /\ ok
             THEN results' = try_send_priority(results,
                                 [page |-> a.page, kind |-> "Image", data |-> "Some"], 1)
             ELSE UNCHANGED results
    /\ UNCHANGED << accepted, w_pc, alpha, inverse, page_cache, pdf_pages,
                    caller_vars, viewer_vars, view_vars, image_vars, ext_vars >>

\* Worker loop: recv_priority(sel.ready()) yields Display(page), which is
\* rasterized; ok = FALSE is a failure of to_pixmap or Image::new.
WorkerDisplay(ok) ==
    /\ w_pc = "recv"
    /\ \E k \in {0, 1} : requests[k] # <<>>
    /\ LET k == BiasedReady(requests)
           a == Head(requests[k])
       IN /\ a.kind = "Display"
          /\ requests' = [requests EXCEPT ![k] = Tail(@)]
          /\ action' = a
          /\ IF a.page >= page_cache
             THEN results' = try_send_priority(results,
                                 [page |-> a.page, kind |-> "Image", data |-> "None"], 1)
             ELSE IF ok
             THEN results' = try_send_priority(results,
                                 [page |-> a.page, kind |-> "Image", data |-> "Some"], 1)
             ELSE UNCHANGED results
    /\ UNCHANGED << accepted, w_pc, alpha, inverse, page_cache, pdf_pages,
                    caller_vars, viewer_vars, view_vars, image_vars, ext_vars >>

\* RendererAction::ToggleAlpha: flip the flag, clear_priority(1).
WorkerToggleAlpha ==
    /\ w_pc = "exec"
    /\ action.kind = "ToggleAlpha"
    /\ alpha' = ~alpha
    /\ requests' = [k \in {0, 1} |-> MarkOld(clear_priority(requests, 1)[k])]
    /\ w_pc' = "recv"
    /\ UNCHANGED << accepted, results, action, inverse, page_cache, pdf_pages,
                    caller_vars, viewer_vars, view_vars, image_vars, ext_vars >>

\* RendererAction::ToggleInverse: flip the flag, clear_priority(1).
WorkerToggleInverse ==
    /\ w_pc = "exec"
    /\ action.kind = "ToggleInverse"
    /\ inverse' = ~inverse
    /\ requests' = [k \in {0, 1} |-> MarkOld(clear_priority(requests, 1)[k])]
    /\ w_pc' = "recv"
    /\ UNCHANGED << accepted, results, action, alpha, page_cache, pdf_pages,
                    caller_vars, viewer_vars, view_vars, image_vars, ext_vars >>

\* RendererAction::Load, first statement: clear_priority(0).
WorkerLoadClear ==
    /\ w_pc = "exec"
    /\ action.kind = "Load"
    /\ requests' = clear_priority(requests, 0)
    /\ w_pc' = "load"
    /\ UNCHANGED << accepted, results, action, alpha, inverse, page_cache,
                    pdf_pages, caller_vars, viewer_vars, view_vars, image_vars, ext_vars >>

\* RendererAction::Load, the rest: state.load(), clear_priority(1), and the
\* PageMetadata sent with priority 0.
WorkerLoad ==
    /\ w_pc = "load"
    /\ page_cache' = pdf_pages
    /\ requests' = clear_priority(requests, 1)
    /\ results' = try_send_priority(results,
                       [page |-> pdf_pages, kind |-> "PageMetadata", data |-> "None"], 0)
    /\ w_pc' = "recv"
    /\ UNCHANGED << accepted, action, alpha, inverse, pdf_pages, caller_vars,
                    viewer_vars, view_vars, image_vars, ext_vars >>

\* RendererAction::Load: state.load()? fails (the file cannot be reopened, or
\* is no PDF): the closure returns Err and the thread ends. The Renderer
\* struct keeps its own ends of every channel, so none is disconnected.
WorkerLoadFail ==
    /\ w_pc = "load"
    /\ w_pc' = "exit"
    /\ UNCHANGED << requests, accepted, results, action, alpha, inverse, page_cache,
                    pdf_pages, caller_vars, viewer_vars, view_vars, image_vars,
                    ext_vars >>

\* The owner of result_client_receiver takes a result: try_recv_priority.
TakeResult(priority) ==
    /\ results[priority] # <<>>
    /\ results' = [results EXCEPT ![priority] = Tail(@)]
    /\ UNCHANGED << requests, accepted, worker_vars, pdf_pages, caller_vars,
                    viewer_vars, view_vars, image_vars, ext_vars >>

\* The file on disk is replaced by one with another number of pages.
PdfChange(n) ==
    /\ pdf_pages # n
    /\ pdf_pages' = n
    /\ UNCHANGED << channel_vars, worker_vars, caller_vars, viewer_vars, view_vars, image_vars, ext_vars >>

(***************************************************************************)
(* The viewport: ViewerOffset with scroll, scale, jump, and the terminal   *)
(* size. scale is counted in halves (scale = 2 is 1.0); the terminal       *)
(* heights are multiples of 60, so every quotient by a scale is exact.     *)
(***************************************************************************)

\* config.viewer.scale_min (0.5) and config.viewer.scale_default (0.5), in halves.
scale_min == 1
scale_default == 1

\* Largest scale the zoom steps of the model reach, in halves.
MaxScale == 4

\* The documents of the viewport: cumulative_heights and max_page_width.
OffsetDocs == { << 100, 250, 400 >>, << 30 >> }
max_page_width == 20

\* Terminal sizes, scroll amounts, zoom amounts (in halves).
WinSizes == { [ws_ypixel |-> 60, ws_xpixel |-> 12], [ws_ypixel |-> 120, ws_xpixel |-> 24] }
ScrollAmounts == { << 0, -150 >>, << 0, -20 >>, << 0, 20 >>, << 0, 150 >>,
                   << -4, 0 >>, << 4, 0 >> }
ScaleAmounts == { -1, 1 }

\* Offsets at which offset2page is evaluated on request.
QueryOffsets == { -10, 0, 30, 31, 100, 101, 250, 399, 400, 1000 }

\* The viewport of the specifications that leave it alone.
OneOffsetDoc == { << 30 >> }
OneWinSize == { [ws_ypixel |-> 60, ws_xpixel |-> 12] }

\* ViewerOffset::new.
ViewerOffsetNew(mw, cum) ==
    [scale |-> scale_default, cumulative_heights |-> cum, offset_y |-> 0,
     page_first |-> 0, max_page_width |-> mw, page_view |-> 0,
     offset_x |-> 0]

\* A bound_viewer that does not clamp the vertical offset from above.
bound_viewerNoUpperClamp(o, ws) ==
    LET cum == o.cumulative_heights
        sc == Max(o.scale, scale_min)
        xlim == ws.ws_xpixel - (o.max_page_width * sc) \div 2
        x2 == Min(Max(o.offset_x, Min(0, xlim)), Max(0, xlim))
        y1 == Max(o.offset_y, -10)
    IN [o EXCEPT !.scale = sc, !.offset_x = x2, !.offset_y = y1,
                 !.page_first = offset2page(cum, y1),
                 !.page_view = Min(offset2page(cum, y1 + ws.ws_ypixel \div sc),
                                   Len(cum) - 1)]

\* ViewerOffset::bound_viewer (the document has at least one page).
bound_viewer(o, ws) ==
    LET cum == o.cumulative_heights
        sc == Max(o.scale, scale_min)
        xlim == ws.ws_xpixel - (o.max_page_width * sc) \div 2
        x1 == Max(o.offset_x, Min(0, xlim))
        x2 == Min(x1, Max(0, xlim))
        max_yoffset == Max(-10, cum[Len(cum)] - (ws.ws_ypixel * 2) \div sc)
        y1 == Max(o.offset_y, -10)
        y2 == Min(y1, max_yoffset)
    IN [o EXCEPT !.scale = sc, !.offset_x = x2, !.offset_y = y2,
                 !.page_first = offset2page(cum, y2),
                 !.page_view = Min(offset2page(cum, y2 + ws.ws_ypixel \div sc),
                                   Len(cum) - 1)]

\* ViewerOffset::jump, for page < cumulative_heights.len().
jump(o, page) ==
    LET first == Min(page, Len(o.cumulative_heights) - 1)
    IN [o EXCEPT !.page_first = first,
                 !.offset_y = IF page = 0 THEN 0
                              ELSE o.cumulative_heights[first]]

\* The viewport after the first reload_document!(): new, heights, bound_viewer.
OffsetInit(docs, sizes) ==
    /\ winsize \in sizes
    /\ \E cum \in docs : vo = bound_viewer(ViewerOffsetNew(max_page_width, cum), winsize)
    /\ vo_event = [page |-> 0, op |-> "bound"]
    /\ query = [offset |-> 0, page |-> 0]

\* ViewerOffset::scroll.
Scroll(amount) ==
    /\ vo' = bound_viewer([vo EXCEPT !.offset_x = @ + amount[1],
                                     !.offset_y = @ + amount[2]], winsize)
    /\ vo_event' = [page |-> 0, op |-> "scroll"]
    /\ UNCHANGED << winsize, query, viewer_vars, renderer_vars, image_vars, ext_vars >>

\* ViewerOffset::scale.
Scale(amount) ==
    /\ vo.scale + amount <= MaxScale
    /\ vo' = bound_viewer([vo EXCEPT !.scale = @ + amount], winsize)
    /\ vo_event' = [page |-> 0, op |-> "scale"]
    /\ UNCHANGED << winsize, query, viewer_vars, renderer_vars, image_vars, ext_vars >>

\* A jump that clamps a page past the end to the last page.
JumpClamped(page) ==
    /\ vo' = jump(vo, Min(page, Len(vo.cumulative_heights) - 1))
    /\ vo_event' = [page |-> page, op |-> "jump"]
    /\ UNCHANGED << winsize, query, viewer_vars, renderer_vars, image_vars, ext_vars >>

\* ViewerOffset::jump; a page past the end is refused with Err.
Jump(page) ==
    /\ IF page >= Len(vo.cumulative_heights)
       THEN /\ vo' = vo
            /\ vo_event' = [page |-> page, op |-> "jump_err"]
       ELSE /\ vo' = jump(vo, page)
            /\ vo_event' = [page |-> page, op |-> "jump"]
    /\ UNCHANGED << winsize, query, viewer_vars, renderer_vars, image_vars, ext_vars >>

\* The rebound after a jump: bound_viewer through scroll((0, 0)).
Rebound ==
    /\ vo_event.op \in {"jump", "resize"}
    /\ vo' = bound_viewer(vo, winsize)
    /\ vo_event' = [page |-> vo_event.page,
                    op |-> IF vo_event.op = "jump" THEN "jump_bound" ELSE "bound"]
    /\ UNCHANGED << winsize, query, viewer_vars, renderer_vars, image_vars, ext_vars >>

\* The winsize thread stores a new terminal size in TERMINAL_SIZE.
Resize(ws) ==
    /\ ws # winsize
    /\ winsize' = ws
    /\ vo_event' = [page |-> 0, op |-> "resize"]
    /\ UNCHANGED << vo, query, viewer_vars, renderer_vars, image_vars, ext_vars >>

\* offset2page evaluated at a given offset.
Offset2Page(offset) ==
    /\ query' = [offset |-> offset, page |-> offset2page(vo.cumulative_heights, offset)]
    /\ query' # query
    /\ UNCHANGED << vo, winsize, vo_event, viewer_vars, renderer_vars, image_vars, ext_vars >>

\* ViewerOffset::center_viewer: half the terminal width minus half the scaled
\* page width (the widths of the model make both halves whole numbers).
center_viewer(o, ws) ==
    [o EXCEPT !.offset_x = ws.ws_xpixel \div 2
                           - (o.max_page_width * o.scale) \div 4]

CenterViewer ==
    /\ vo' = center_viewer(vo, winsize)
    /\ vo_event' = [page |-> 0, op |-> "center"]
    /\ vo' # vo \/ vo_event' # vo_event
    /\ UNCHANGED << winsize, query, viewer_vars, renderer_vars, image_vars, ext_vars >>

\* The public operations of ViewerOffset on a terminal of one size.
PublicNext ==
    \/ \E amount \in ScrollAmounts : Scroll(amount)
    \/ \E amount \in ScaleAmounts : Scale(amount)
    \/ \E page \in 0..3 : Jump(page)
    \/ Rebound
    \/ CenterViewer

OffsetNext ==
    \/ \E amount \in ScrollAmounts : Scroll(amount)
    \/ \E amount \in ScaleAmounts : Scale(amount)
    \/ \E page \in 0..3 : Jump(page)
    \/ Rebound
    \/ \E ws \in WinSizes : Resize(ws)
    \/ \E offset \in QueryOffsets : Offset2Page(offset)

(***************************************************************************)
(* Image ids and the temp files of the graphics adapter: Image::new on the *)
(* render thread, Image::transfer again on the main thread, the terminal.  *)
(***************************************************************************)

\* Images constructed, and re-transfers started, in one behaviour.
MaxImages == 3
MaxTransfers == 2

GraphicsThreads == { "render", "main" }

\* static ID: AtomicUsize = AtomicUsize::new(1).
FirstId == 1

\* A counter store that writes back the value it read.
NextIdSame(loaded) == loaded

\* The value of ID.store(ID.load() + 1).
NextId(loaded) == loaded + 1

ImageInit ==
    /\ ID = FirstId
    /\ files = {}
    /\ tty = <<>>
    /\ stdout_lock = "none"
    /\ g_pc = [t \in GraphicsThreads |-> "idle"]
    /\ g_img = [t \in GraphicsThreads |-> 0]
    /\ g_tmp = [t \in GraphicsThreads |-> 0]
    /\ known = {}
    /\ transfers = 0
    /\ made = <<>>
    /\ failed = {}

\* Image::new: the struct is built with id: ID.load().
NewLoadId ==
    /\ g_pc["render"] = "idle"
    /\ Len(made) < MaxImages
    /\ g_img' = [g_img EXCEPT !["render"] = ID]
    /\ made' = Append(made, ID)
    /\ g_pc' = [g_pc EXCEPT !["render"] = "load"]
    /\ UNCHANGED << ID, files, tty, stdout_lock, g_tmp, known, transfers, failed,
                    viewer_vars, renderer_vars, view_vars, ext_vars >>

\* Image::new: the ID.load() inside ID.store(ID.load() + 1).
NewLoadCounter ==
    /\ g_pc["render"] = "load"
    /\ g_tmp' = [g_tmp EXCEPT !["render"] = ID]
    /\ g_pc' = [g_pc EXCEPT !["render"] = "store"]
    /\ UNCHANGED << ID, files, tty, stdout_lock, g_img, known, transfers, made,
                    failed, viewer_vars, renderer_vars, view_vars, ext_vars >>

\* Image::new: ID.store(.. + 1); image.transfer() is next.
NewStoreCounter ==
    /\ g_pc["render"] = "store"
    /\ ID' = NextId(g_tmp["render"])
    /\ g_pc' = [g_pc EXCEPT !["render"] = "lock"]
    /\ UNCHANGED << files, tty, stdout_lock, g_img, g_tmp, known, transfers, made,
                    failed, viewer_vars, renderer_vars, view_vars, ext_vars >>

\* Viewer::schedule_transfer: Image::transfer of a held image.
ScheduleTransfer(id) ==
    /\ g_pc["main"] = "idle"
    /\ id \in known
    /\ transfers < MaxTransfers
    /\ transfers' = transfers + 1
    /\ g_img' = [g_img EXCEPT !["main"] = id]
    /\ g_pc' = [g_pc EXCEPT !["main"] = "lock"]
    /\ UNCHANGED << ID, files, tty, stdout_lock, g_tmp, known, made, failed,
                    viewer_vars, renderer_vars, view_vars, ext_vars >>

\* terminal_graphics_transfer_bitmap: stdout().lock().
TransferLock(t) ==
    /\ g_pc[t] = "lock"
    /\ stdout_lock = "none"
    /\ stdout_lock' = t
    /\ g_pc' = [g_pc EXCEPT ![t] = "wait"]
    /\ UNCHANGED << ID, files, tty, g_img, g_tmp, known, transfers, made, failed,
                    viewer_vars, renderer_vars, view_vars, ext_vars >>

\* A busy-wait that does not look at the file.
TransferNoWait(t) ==
    /\ g_pc[t] = "wait"
    /\ g_pc' = [g_pc EXCEPT ![t] = "create"]
    /\ UNCHANGED << ID, files, tty, stdout_lock, g_img, g_tmp, known, transfers,
                    made, failed, viewer_vars, renderer_vars, view_vars, ext_vars >>

\* terminal_graphics_transfer_bitmap: while tmp_file_path.exists() {} ends.
TransferWait(t) ==
    /\ g_pc[t] = "wait"
    /\ g_img[t] \notin files
    /\ g_pc' = [g_pc EXCEPT ![t] = "create"]
    /\ UNCHANGED << ID, files, tty, stdout_lock, g_img, g_tmp, known, transfers,
                    made, failed, viewer_vars, renderer_vars, view_vars, ext_vars >>

\* terminal_graphics_transfer_bitmap: File::create and write_all.
TransferCreate(t) ==
    /\ g_pc[t] = "create"
    /\ files' = files \cup { g_img[t] }
    /\ g_pc' = [g_pc EXCEPT ![t] = "send"]
    /\ UNCHANGED << ID, tty, stdout_lock, g_img, g_tmp, known, transfers, made,
                    failed, viewer_vars, renderer_vars, view_vars, ext_vars >>

\* File::create(..).unwrap() fails: the transfer ends without a file, the
\* StdoutLock is dropped; on the render thread no image is produced.
TransferFail(t) ==
    /\ g_pc[t] = "create"
    /\ stdout_lock' = "none"
    /\ failed' = IF t = "render" THEN failed \cup { g_img[t] } ELSE failed
    /\ g_pc' = [g_pc EXCEPT ![t] = "idle"]
    /\ UNCHANGED << ID, files, tty, g_img, g_tmp, known, transfers, made,
                    viewer_vars, renderer_vars, view_vars, ext_vars >>

\* terminal_graphics_transfer_bitmap: the transfer command is written and
\* flushed, the function returns; Image::new returns the image, which
\* reaches the main thread.
TransferSend(t) ==
    /\ g_pc[t] = "send"
    /\ tty' = Append(tty, g_img[t])
    /\ stdout_lock' = "none"
    /\ known' = IF t = "render" THEN known \cup { g_img[t] } ELSE known
    /\ g_pc' = [g_pc EXCEPT ![t] = "idle"]
    /\ UNCHANGED << ID, files, g_img, g_tmp, transfers, made, failed,
                    viewer_vars, renderer_vars, view_vars, ext_vars >>

\* The terminal reads a transfer command, reads the file and deletes it.
TerminalRead ==
    /\ tty # <<>>
    /\ files' = files \ { Head(tty) }
    /\ tty' = Tail(tty)
    /\ UNCHANGED << ID, stdout_lock, g_pc, g_img, g_tmp, known, transfers, made,
                    failed, viewer_vars, renderer_vars, view_vars, ext_vars >>

\* A terminal that takes a transfer command and leaves the temp file in
\* place (it does not implement t=t, or could not read the file).
TerminalIgnore ==
    /\ tty # <<>>
    /\ tty' = Tail(tty)
    /\ UNCHANGED << ID, files, stdout_lock, g_pc, g_img, g_tmp, known, transfers,
                    made, failed, viewer_vars, renderer_vars, view_vars, ext_vars >>

ImageNext ==
    \/ NewLoadId
    \/ NewLoadCounter
    \/ NewStoreCounter
    \/ \E id \in 1..MaxImages : ScheduleTransfer(id)
    \/ \E t \in GraphicsThreads : TransferLock(t)
    \/ \E t \in GraphicsThreads : TransferWait(t)
    \/ \E t \in GraphicsThreads : TransferCreate(t)
    \/ \E t \in GraphicsThreads : TransferFail(t)
    \/ \E t \in GraphicsThreads : TransferSend(t)
    \/ TerminalRead

(***************************************************************************)
(* One frame of display_pages, the display half: Image::check and          *)
(* Image::display on the held pages of the frame, and the list returned.   *)
(***************************************************************************)

\* config.viewer.margin_bottom, and the width of the pages after the first
\* (the first page is the widest, max_page_width).
margin_bottom == 10
narrow_page_width == 8

\* The unpadded size of the image of a page, in document pixels
\* (dimensions / render_precision).
ImageWidth(page) == IF page = 0 THEN max_page_width ELSE narrow_page_width
ImageHeight(cum, page) == page_height(cum, page) - margin_bottom

\* `as i32` of a quotient: truncation towards zero.
TruncDiv(a, b) == IF a >= 0 THEN a \div b ELSE -((-a) \div b)

\* Image::display: FALSE when the image lies outside of the terminal and the
\* function returns before writing. x, y in pixels, sc in halves, w, h the
\* unpadded size.
HasDisplayed(x, y, sc, w, h, ws) ==
    ~ \/ 2 * x + w * sc < 0
      \/ 2 * y + h * sc < 0
      \/ (x >= 0 /\ x > ws.ws_xpixel)
      \/ (y >= 0 /\ y > ws.ws_ypixel)

\* A load_or_display! that lists every held page it visits.
DisplayedPushAlways(list, page, preload, has_displayed) ==
    Append(list, page)

\* load_or_display!: displayed.push after check(), or after a display()
\* that returned true.
DisplayedPush(list, page, preload, has_displayed) ==
    IF preload \/ has_displayed THEN Append(list, page) ELSE list

\* The commands on the terminal after Image::check / Image::display.
TerminalWrite(out, page, preload, has_displayed) ==
    IF preload THEN Append(out, << page, "check" >>)
    ELSE IF has_displayed THEN Append(out, << page, "display" >>)
    ELSE out

\* load_or_display!, the display half, for one page.
LoadOrDisplayStep(page, y, preload, held) ==
    IF held
    THEN LET has == HasDisplayed(vo.offset_x, y, vo.scale, ImageWidth(page),
                                 ImageHeight(vo.cumulative_heights, page), winsize)
         IN /\ displayed' = DisplayedPush(displayed, page, preload, has)
            /\ written' = TerminalWrite(written, page, preload, has)
    ELSE UNCHANGED << displayed, written >>

\* An offset inside the first page that is counted from the top of the
\* document.
PageOffsetAbsolute == vo.offset_y

\* The offset inside the first page.
PageOffset ==
    vo.offset_y - (IF vo.page_first = 0 THEN 0
                   ELSE vo.cumulative_heights[vo.page_first])

FrameInit ==
    /\ f_pc = "idle"
    /\ f_index = 0
    /\ f_doff = 0
    /\ f_n = 0
    /\ visited = <<>>
    /\ f_h = 0
    /\ displayed = <<>>
    /\ written = <<>>

\* display_pages, after the receive loop: page_index = page_first, and the
\* early return when the document has no such page.
FrameBegin ==
    /\ f_pc = "idle"
    /\ f_index' = vo.page_first
    /\ f_pc' = IF Len(vo.cumulative_heights) <= vo.page_first THEN "done"
               ELSE "before"
    /\ UNCHANGED << f_doff, f_n, visited, f_h, displayed, written,
                    viewer_vars, renderer_vars, view_vars, image_vars,
                    frame_rest >>

\* The page before the first is checked.
FrameBefore(held) ==
    /\ f_pc = "before"
    /\ IF f_index > 0
       THEN /\ LoadOrDisplayStep(f_index - 1, 0, TRUE, held)
            /\ visited' = Append(visited, << f_index - 1, 0, TRUE, 0 >>)
       ELSE UNCHANGED << displayed, written, visited >>
    /\ f_pc' = "first"
    /\ UNCHANGED << f_index, f_doff, f_n, f_h,
                    viewer_vars, renderer_vars, view_vars, image_vars,
                    frame_rest >>

\* The first page is displayed at -page_offset * scale.
FrameFirst(held) ==
    /\ f_pc = "first"
    /\ LoadOrDisplayStep(f_index, TruncDiv(-PageOffset * vo.scale, 2), FALSE, held)
    /\ visited' = Append(visited, << f_index, -PageOffset * vo.scale, FALSE, 0 >>)
    /\ f_doff' = (page_height(vo.cumulative_heights, f_index) - PageOffset)
                     * vo.scale
    /\ f_index' = f_index + 1
    /\ f_pc' = "loop"
    /\ UNCHANGED << f_n, f_h, viewer_vars, renderer_vars, view_vars, image_vars,
                    frame_rest >>

\* The pages that fit inside the terminal are displayed; then the number of
\* pages to preload is fixed.
FrameLoop(held) ==
    /\ f_pc = "loop"
    /\ IF /\ f_doff < 2 * winsize.ws_ypixel
          /\ f_index < Len(vo.cumulative_heights)
       THEN /\ LoadOrDisplayStep(f_index, TruncDiv(f_doff, 2), FALSE, held)
            /\ visited' = Append(visited, << f_index, f_doff, FALSE,
                                             winsize.ws_ypixel >>)
            /\ f_doff' = f_doff
                         + page_height(vo.cumulative_heights, f_index) * vo.scale
            /\ f_index' = f_index + 1
            /\ UNCHANGED << f_pc, f_n, f_h >>
       ELSE /\ f_n' = Min(pages_preloaded, Len(vo.cumulative_heights) - f_index)
            /\ f_h' = winsize.ws_ypixel
            /\ f_pc' = "preload"
            /\ UNCHANGED << f_index, f_doff, visited, displayed, written >>
    /\ UNCHANGED << viewer_vars, renderer_vars, view_vars, image_vars,
                    frame_rest >>

\* The pages after the last displayed one are checked; Ok(displayed).
FramePreload(held) ==
    /\ f_pc = "preload"
    /\ IF f_n > 0
       THEN /\ LoadOrDisplayStep(f_index, 0, TRUE, held)
            /\ visited' = Append(visited, << f_index, 0, TRUE, 0 >>)
            /\ f_index' = f_index + 1
            /\ f_n' = f_n - 1
            /\ UNCHANGED f_pc
       ELSE /\ f_pc' = "done"
            /\ UNCHANGED << f_index, f_n, visited, displayed, written >>
    /\ UNCHANGED << f_doff, f_h, viewer_vars, renderer_vars, view_vars, image_vars,
                    frame_rest >>

\* The caller has consumed the list; the next frame starts from nothing.
FrameReturn ==
    /\ f_pc = "done"
    /\ f_pc' = "idle"
    /\ f_index' = 0
    /\ f_doff' = 0
    /\ f_n' = 0
    /\ visited' = <<>>
    /\ f_h' = 0
    /\ displayed' = <<>>
    /\ written' = <<>>
    /\ UNCHANGED << viewer_vars, renderer_vars, view_vars, image_vars,
                    frame_rest >>

\* Scroll amounts of the frames.
FrameScrolls == { << 0, -20 >>, << 0, 20 >>, << 0, 150 >>, << -4, 0 >>, << 4, 0 >> }

\* Frames, with the viewport moved between them by the main thread and the
\* terminal size stored at any time by the winsize thread.
FrameNext ==
    \/ FrameBegin
    \/ \E held \in BOOLEAN : FrameBefore(held)
    \/ \E held \in BOOLEAN : FrameFirst(held)
    \/ \E held \in BOOLEAN : FrameLoop(held)
    \/ \E held \in BOOLEAN : FramePreload(held)
    \/ FrameReturn
    \/ f_pc = "idle" /\ \E amount \in FrameScrolls : Scroll(amount)
    \/ f_pc = "idle" /\ \E amount \in ScaleAmounts : Scale(amount)
    \/ f_pc = "idle" /\ \E page \in 0..2 : Jump(page)
    \/ \E ws \in WinSizes : Resize(ws)

(***************************************************************************)
(* A failed acknowledgement: Viewer::schedule_transfer on the main thread  *)
(***************************************************************************)

\* Failed acknowledgements handled in one behaviour.
MaxAcks == 2

\* A schedule_transfer that also asks the render thread for the page again.
schedule_transferAndRequest(page) ==
    /\ m_pc = "idle"
    /\ Len(retransferred) < MaxAcks
    /\ page \in Held
    /\ retransferred' = Append(retransferred, page)
    /\ wakes' = wakes + 1
    /\ receive_display' = Append(receive_display, page)
    /\ scheduled4render' = scheduled4render \cup {page}
    /\ last_event' = [size |-> 0, page |-> page, op |-> "retransfer"]
    /\ UNCHANGED << images, invalidated, memory_used, last_rendered, m_pc,
                    offset_vars, receive_render_init, image_channel,
                    reload_informer_internal, thread_vars, env_vars, seen_ver,
                    scenario, order, renderer_vars, view_vars, image_vars,
                    ack_rest >>

\* Viewer::schedule_transfer(page), between two calls of display_pages:
\* images[&page] (a panic when the page is not held), Image::transfer of that
\* image, one () on rerender_initializer.
schedule_transfer(page) ==
    /\ m_pc = "idle"
    /\ Len(retransferred) < MaxAcks
    /\ IF page \notin Held
       THEN /\ m_pc' = "panic"
            /\ UNCHANGED << retransferred, wakes >>
       ELSE /\ retransferred' = Append(retransferred, page)
            /\ wakes' = wakes + 1
            /\ UNCHANGED m_pc
    /\ last_event' = [size |-> 0, page |-> page, op |-> "retransfer"]
    /\ UNCHANGED << registry_vars, offset_vars, receive_render_init,
                    receive_display, image_channel, reload_informer_internal,
                    thread_vars, env_vars, seen_ver, scenario, order,
                    renderer_vars, view_vars, image_vars, ack_rest >>

AckInit ==
    /\ retransferred = <<>>
    /\ wakes = 0

\* The pages whose acknowledgement the event loop reads after a frame: the
\* pages of the frame that are held.
AckPages ==
    Held \cap Range(FramePages(cumulative_heights, page_first, offset_y))

\* The eviction scenario with failed acknowledgements between the frames.
AckNext ==
    \/ ThreadLoad
    \/ ThreadBound
    \/ ThreadInform
    \/ \E ok \in BOOLEAN : ThreadDisplay(ok)
    \/ ReceiveImage
    \/ ReceiveEnd
    \/ DisplayPagesFrame
    \/ \E page \in AckPages : schedule_transfer(page)

(***************************************************************************)
(* Config migration: fix_config_toml. A toml::Value is << variant, v >>;   *)
(* a toml::Table is a function from its keys to values.                    *)
(***************************************************************************)

\* The calls of fix_config_toml made on one table.
MaxRuns == 2

ConfigKeys == { "a", "b" }
ConfigLeaves == { << "Integer", 1 >>, << "Integer", 2 >>, << "String", 1 >> }

\* Every table over ConfigKeys with values from V.
TablesOver(V) == UNION { [S -> V] : S \in SUBSET ConfigKeys }

\* The tables a user's file can hold: leaves, and tables of leaves.
ConfigTables ==
    TablesOver(ConfigLeaves \cup { << "Table", t >> : t \in TablesOver(ConfigLeaves) })

\* The built-in default tables of the model.
ConfigDefaults ==
    { [k \in { "a" } |-> << "Table", [j \in { "a" } |-> << "Integer", 1 >>] >>],
      [k \in { "a", "b" } |->
          IF k = "a" THEN << "Integer", 1 >>
          ELSE << "Table", [j \in { "a", "b" } |->
                               IF j = "a" THEN << "Integer", 1 >>
                               ELSE << "String", 1 >>] >>],
      [k \in { "a", "b" } |->
          IF k = "a" THEN << "String", 1 >> ELSE << "Integer", 2 >>] }

\* std::mem::discriminant of a toml::Value.
discriminant(value) == value[1]

\* A replacement of a wrong variant that leaves the user's value in place.
ReplaceVariantKeep(current_value, default_value) == current_value

\* current[&key] = default[&key].clone().
ReplaceVariant(current_value, default_value) == default_value

\* A removal of unknown keys that keeps them.
KeyKeptAlways(current, default, key) == TRUE

\* Whether the key is in `current` after its iteration: a key of `current`
\* that `default` lacks is removed.
KeyKept(current, default, key) == key \in DOMAIN default

\* fix_config_toml: << the table `current` after the call, the value returned >>.
\* Each iteration of the loop reads and writes its own key only.
RECURSIVE fix_config_toml(_, _)
fix_config_toml(current, default) ==
    LET keys == DOMAIN current \cup DOMAIN default
        in_current(key) == key \in DOMAIN current
        in_default(key) == key \in DOMAIN default
        both_tables(key) == /\ discriminant(current[key]) = "Table"
                            /\ discriminant(default[key]) = "Table"
        value(key) ==
            IF in_current(key) /\ ~in_default(key) THEN current[key]
            ELSE IF ~in_current(key) /\ in_default(key) THEN default[key]
            ELSE IF discriminant(current[key]) # discriminant(default[key])
            THEN ReplaceVariant(current[key], default[key])
            ELSE IF both_tables(key)
            THEN << "Table", fix_config_toml(current[key][2], default[key][2])[1] >>
            ELSE current[key]
        changed(key) ==
            IF in_current(key) /\ ~in_default(key) THEN TRUE
            ELSE IF ~in_current(key) /\ in_default(key) THEN TRUE
            ELSE IF discriminant(current[key]) # discriminant(default[key])
            THEN TRUE
            ELSE IF both_tables(key)
            THEN fix_config_toml(current[key][2], default[key][2])[2]
            ELSE FALSE
    IN << [key \in { k \in keys : KeyKept(current, default, k) } |-> value(key)],
          \E key \in keys : changed(key) >>

ConfigInit ==
    /\ cfg_current \in ConfigTables
    /\ cfg_default \in ConfigDefaults
    /\ cfg_input = cfg_current
    /\ cfg_prev = cfg_current
    /\ cfg_changed = FALSE
    /\ cfg_runs = 0

\* The state of the migration in the specifications that do not run it.
ConfigIdle ==
    /\ cfg_current = <<>>
    /\ cfg_default = <<>>
    /\ cfg_input = <<>>
    /\ cfg_prev = <<>>
    /\ cfg_changed = FALSE
    /\ cfg_runs = 0

\* config_load_or_create: fix_config_toml(&mut current, &default).
Migrate ==
    /\ cfg_runs < MaxRuns
    /\ LET r == fix_config_toml(cfg_current, cfg_default)
       IN /\ cfg_current' = r[1]
          /\ cfg_changed' = r[2]
    /\ cfg_prev' = cfg_current
    /\ cfg_runs' = cfg_runs + 1
    /\ UNCHANGED << cfg_default, cfg_input,
                    viewer_vars, renderer_vars, view_vars, image_vars, cfg_rest >>

ConfigNext == Migrate

(***************************************************************************)
(* Throttled actions: has_elapsed! on the main thread. Time is counted in  *)
(* units of 100 ms.                                                        *)
(***************************************************************************)

\* The clock stops here.
MaxTime == 12

\* The 500 ms of has_elapsed!, in units of 100 ms.
throttle_window == 5

ThrottledActions == { "ToggleAlpha", "ToggleInverse" }

\* A has_elapsed! that restarts the window on every attempt.
has_elapsedRestart(var, read_at, now) ==
    << now, read_at - var >= throttle_window >>

\* has_elapsed!($var): << $var afterwards, the value of the macro >>.
\* $var.elapsed() is read at read_at, SystemTime::now() at now.
has_elapsed(var, read_at, now) ==
    LET elapsed == read_at - var
    IN << IF elapsed >= throttle_window THEN now ELSE var,
          elapsed >= throttle_window >>

\* Each throttled action has its own SystemTime, set at startup.
ThrottleStart == [a \in ThrottledActions |-> 0]

ThrottleInit ==
    /\ th_now = 0
    /\ th_var = ThrottleStart
    /\ th_pc = "idle"
    /\ th_a = "ToggleAlpha"
    /\ th_at = 0
    /\ th_acc = [a \in ThrottledActions |-> -1]
    /\ th_try = << "none", 0, -1, FALSE >>

\* 100 ms pass.
Tick ==
    /\ th_now < MaxTime
    /\ th_now' = th_now + 1
    /\ UNCHANGED << th_var, th_pc, th_a, th_at, th_acc, th_try,
                    viewer_vars, renderer_vars, view_vars, image_vars, th_rest >>

\* A key bound to a throttled action arrives: $var.elapsed() is read.
Attempt(a) ==
    /\ th_pc = "idle"
    /\ th_pc' = "read"
    /\ th_a' = a
    /\ th_at' = th_now
    /\ UNCHANGED << th_now, th_var, th_acc, th_try,
                    viewer_vars, renderer_vars, view_vars, image_vars, th_rest >>

\* The rest of has_elapsed!; the action is accepted when the macro is true.
AttemptEnd ==
    /\ th_pc = "read"
    /\ LET r == has_elapsed(th_var[th_a], th_at, th_now)
       IN /\ th_var' = [th_var EXCEPT ![th_a] = r[1]]
          /\ th_acc' = IF r[2] THEN [th_acc EXCEPT ![th_a] = th_now] ELSE th_acc
          /\ th_try' = << th_a, th_at,
                          IF th_acc[th_a] < 0 THEN -1 ELSE th_at - th_acc[th_a],
                          r[2] >>
    /\ th_pc' = "idle"
    /\ UNCHANGED << th_now, th_a, th_at,
                    viewer_vars, renderer_vars, view_vars, image_vars, th_rest >>

ThrottleNext ==
    \/ Tick
    \/ \E a \in ThrottledActions : Attempt(a)
    \/ AttemptEnd

(***************************************************************************)
(* Quit: RUNNING is cleared; the loops of the input reader, the            *)
(* window-size poller and the rasterizer worker.                           *)
(***************************************************************************)

\* Bytes typed, and actions sent to the worker, in one behaviour.
MaxTyped == 3
MaxActions == 3

QuitInit ==
    /\ RUNNING = TRUE
    /\ stdin_pc = "check"
    /\ stdin_bytes = 0
    /\ ws_pc = "check"
    /\ rw_pc = "check"
    /\ rw_queue = 0
    /\ q_typed = 0
    /\ q_sent = 0

\* threads/stdin.rs: while RUNNING.load(Ordering::Acquire).
StdinCheck ==
    /\ stdin_pc = "check"
    /\ stdin_pc' = IF RUNNING THEN "read" ELSE "exit"
    /\ UNCHANGED << RUNNING, stdin_bytes, ws_pc, rw_pc, rw_queue, q_typed, q_sent,
                    viewer_vars, renderer_vars, view_vars, image_vars, quit_rest >>

\* threads/stdin.rs: handle.read(&mut b) returns one byte; the byte is fed to
\* the DFA and a token, if any, is sent on an unbounded channel.
StdinRead ==
    /\ stdin_pc = "read"
    /\ stdin_bytes > 0
    /\ stdin_bytes' = stdin_bytes - 1
    /\ stdin_pc' = "check"
    /\ UNCHANGED << RUNNING, ws_pc, rw_pc, rw_queue, q_typed, q_sent,
                    viewer_vars, renderer_vars, view_vars, image_vars, quit_rest >>

\* threads/winsize.rs: while RUNNING.load(Ordering::Acquire).
WinsizeCheck ==
    /\ ws_pc = "check"
    /\ ws_pc' = IF RUNNING THEN "sleep" ELSE "exit"
    /\ UNCHANGED << RUNNING, stdin_pc, stdin_bytes, rw_pc, rw_queue, q_typed,
                    q_sent,
                    viewer_vars, renderer_vars, view_vars, image_vars, quit_rest >>

\* threads/winsize.rs: thread::sleep(100 ms) ends; the body of the loop.
WinsizePoll ==
    /\ ws_pc = "sleep"
    /\ ws_pc' = "check"
    /\ UNCHANGED << RUNNING, stdin_pc, stdin_bytes, rw_pc, rw_queue, q_typed,
                    q_sent,
                    viewer_vars, renderer_vars, view_vars, image_vars, quit_rest >>

\* threads/renderer.rs: while RUNNING.load(Ordering::Acquire).
WorkerCheck ==
    /\ rw_pc = "check"
    /\ rw_pc' = IF RUNNING THEN "ready" ELSE "exit"
    /\ UNCHANGED << RUNNING, stdin_pc, stdin_bytes, ws_pc, rw_queue, q_typed,
                    q_sent,
                    viewer_vars, renderer_vars, view_vars, image_vars, quit_rest >>

\* threads/renderer.rs: recv_priority(sel.ready()) returns an action, which
\* is handled.
WorkerReceive ==
    /\ rw_pc = "ready"
    /\ rw_queue > 0
    /\ rw_queue' = rw_queue - 1
    /\ rw_pc' = "check"
    /\ UNCHANGED << RUNNING, stdin_pc, stdin_bytes, ws_pc, q_typed, q_sent,
                    viewer_vars, renderer_vars, view_vars, image_vars, quit_rest >>

\* The steps the background threads take by themselves.
BackgroundStep ==
    \/ StdinCheck
    \/ StdinRead
    \/ WinsizeCheck
    \/ WinsizePoll
    \/ WorkerCheck
    \/ WorkerReceive

\* The terminal delivers a byte: a key, or part of an escape sequence.
TypeByte ==
    /\ q_typed < MaxTyped
    /\ q_typed' = q_typed + 1
    /\ stdin_bytes' = stdin_bytes + 1
    /\ UNCHANGED << RUNNING, stdin_pc, ws_pc, rw_pc, rw_queue, q_sent,
                    viewer_vars, renderer_vars, view_vars, image_vars, quit_rest >>

\* The event loop, while it runs, sends an action to the worker.
SendToWorker ==
    /\ RUNNING
    /\ q_sent < MaxActions
    /\ q_sent' = q_sent + 1
    /\ rw_queue' = rw_queue + 1
    /\ UNCHANGED << RUNNING, stdin_pc, stdin_bytes, ws_pc, rw_pc, q_typed,
                    viewer_vars, renderer_vars, view_vars, image_vars, quit_rest >>

\* Quit: the event loop clears RUNNING and breaks.
Quit ==
    /\ RUNNING
    /\ RUNNING' = FALSE
    /\ UNCHANGED << stdin_pc, stdin_bytes, ws_pc, rw_pc, rw_queue, q_typed, q_sent,
                    viewer_vars, renderer_vars, view_vars, image_vars, quit_rest >>

QuitNext ==
    \/ StdinCheck
    \/ StdinRead
    \/ WinsizeCheck
    \/ WinsizePoll
    \/ WorkerCheck
    \/ WorkerReceive
    \/ TypeByte
    \/ SendToWorker
    \/ Quit

(***************************************************************************)
(* Image::display: snapping to whole cells and the crop rectangle.         *)
(* Pixels are integers, the scale is in halves, render_precision is 1 and  *)
(* the cell size is a whole number of pixels, so every quotient below is   *)
(* exact: a padding is kept as its numerator over the scale in halves.     *)
(***************************************************************************)

\* Columns and rows of the terminal.
ws_col == 3
ws_row == 5

\* pxpercol and pxperrow of a terminal size.
PxPerCol(ws) == ws.ws_xpixel \div ws_col
PxPerRow(ws) == ws.ws_ypixel \div ws_row

\* main: padding = max(ceil(pxpercol * precision / scale_min),
\*                     ceil(pxperrow * precision / scale_min)).
Padding(ws) ==
    Max((2 * PxPerCol(ws) + scale_min - 1) \div scale_min,
        (2 * PxPerRow(ws) + scale_min - 1) \div scale_min)

\* `as usize` of the quotient n / d: towards zero, and 0 below zero.
AsUsize(n, d) == IF n <= 0 THEN 0 ELSE n \div d

\* One axis of Image::display: position v, unpadded length len, cell size px,
\* padding P. The paddings times sc, the crop offset and the crop length.
DisplayAxis(v, len, sc, px, P) ==
    LET before == IF v < 0 THEN 0 ELSE 2 * (v % px)
        after == (-(2 * v + len * sc)) % (2 * px)
    IN [before |-> before,
        after |-> after,
        crop |-> IF v < 0 THEN AsUsize(P * sc - 2 * v, sc)
                 ELSE AsUsize(P * sc - before, sc),
        length |-> IF v < 0 THEN AsUsize(2 * v + len * sc + after, sc)
                   ELSE AsUsize(before + after + len * sc, sc)]

\* Image::display: whether the command is written, the rectangle sent, and
\* the terminal size that was read.
ImageDisplay(x, y, sc, w, h, ws, P) ==
    << HasDisplayed(x, y, sc, w, h, ws),
       DisplayAxis(x, w, sc, PxPerCol(ws), P),
       DisplayAxis(y, h, sc, PxPerRow(ws), P),
       ws >>

\* Display positions of the model.
DisplayXs == -5 .. 12
DisplayYs == { -13, -1, 0, 1, 5, 11, 12, 23, 25 }

\* The padding is computed from the terminal size at startup.
CropInit ==
    /\ IMAGE_PADDING = Padding(winsize)
    /\ d_x \in DisplayXs
    /\ d_y \in DisplayYs
    /\ d_sc \in scale_min .. MaxScale
    /\ d_page \in { 0, 1 }
    /\ d_out = << >>

\* The state of the display in the specifications that do not run it.
CropIdle ==
    /\ IMAGE_PADDING = Padding(winsize)
    /\ d_x = 0
    /\ d_y = 0
    /\ d_sc = scale_min
    /\ d_page = 0
    /\ d_out = << >>

\* Image::display of a page of the three-page document, at (d_x, d_y).
DisplayImage ==
    /\ d_out' = ImageDisplay(d_x, d_y, d_sc, ImageWidth(d_page),
                             ImageHeight(<< 100, 250, 400 >>, d_page), winsize,
                             IMAGE_PADDING)
    /\ d_out' # d_out
    /\ UNCHANGED << IMAGE_PADDING, d_x, d_y, d_sc, d_page,
                    viewer_vars, renderer_vars, view_vars, image_vars, crop_rest >>

CropNext ==
    \/ DisplayImage
    \/ \E ws \in WinSizes : Resize(ws)

(***************************************************************************)
(* The registry under any byte budget: the receive loop of display_pages   *)
(* with config.viewer.memory_limit as the configuration file gives it.     *)
(***************************************************************************)

\* Registry operations in one behaviour.
MaxOps == 5

\* Values of memory_limit that config_load_or_create accepts (a usize with
\* no constraint), pages and image sizes.
BudgetLimits == { 0, 1000 }
BudgetPages == { 0, 1 }
BudgetSizes == { 300, 1000 }

\* The eviction loop under the byte budget `limit`:
\*   while memory_used >= limit { pop_front().unwrap(); skip if not held;
\*                                remove_image! }
RECURSIVE EvictUnder(_, _, _, _)
EvictUnder(limit, imgs, mem, fifo) ==
    IF mem < limit
    THEN [images |-> imgs, memory_used |-> mem, last_rendered |-> fifo, panic |-> FALSE]
    ELSE IF fifo = <<>>
    THEN [images |-> imgs, memory_used |-> mem, last_rendered |-> fifo, panic |-> TRUE]
    ELSE LET page2remove == Head(fifo)
         IN IF page2remove \notin DOMAIN imgs
            THEN EvictUnder(limit, imgs, mem, Tail(fifo))
            ELSE LET r == RemoveImage(imgs, mem, page2remove)
                 IN EvictUnder(limit, r.images, r.memory_used, Tail(fifo))

BudgetInit ==
    /\ bg_limit \in BudgetLimits
    /\ bg_images = EmptyMap
    /\ bg_invalidated = {}
    /\ bg_memory_used = 0
    /\ bg_last_rendered = <<>>
    /\ bg_pc = "run"
    /\ bg_ops = 0

\* The registry in the specifications that run it under memory_limit.
BudgetIdle ==
    /\ bg_limit = memory_limit
    /\ bg_images = EmptyMap
    /\ bg_invalidated = {}
    /\ bg_memory_used = 0
    /\ bg_last_rendered = <<>>
    /\ bg_pc = "run"
    /\ bg_ops = 0

\* An image arrives for a page that was requested (not held, or held and
\* invalidated): the body of the receive loop for Some(image).
BudgetInsert(page, size) ==
    /\ bg_pc = "run"
    /\ bg_ops < MaxOps
    /\ page \notin DOMAIN bg_images \/ page \in bg_invalidated
    /\ LET r == EvictUnder(bg_limit,
                           MapInsert(bg_images, page, [size |-> size, ver |-> 0]),
                           bg_memory_used + size, Append(bg_last_rendered, page))
       IN /\ bg_images' = r.images
          /\ bg_memory_used' = r.memory_used
          /\ bg_last_rendered' = r.last_rendered
          /\ bg_pc' = IF r.panic THEN "panic" ELSE "run"
    /\ bg_invalidated' = bg_invalidated \ { page }
    /\ bg_ops' = bg_ops + 1
    /\ UNCHANGED << bg_limit, viewer_vars, renderer_vars, view_vars, image_vars,
                    budget_rest >>

\* A None result for a held page: remove_image!.
BudgetNone(page) ==
    /\ bg_pc = "run"
    /\ bg_ops < MaxOps
    /\ page \in DOMAIN bg_images
    /\ LET r == RemoveImage(bg_images, bg_memory_used, page)
       IN /\ bg_images' = r.images
          /\ bg_memory_used' = r.memory_used
    /\ bg_ops' = bg_ops + 1
    /\ UNCHANGED << bg_limit, bg_invalidated, bg_last_rendered, bg_pc,
                    viewer_vars, renderer_vars, view_vars, image_vars,
                    budget_rest >>

\* A reload signal: every held page is invalidated.
BudgetReload ==
    /\ bg_pc = "run"
    /\ bg_ops < MaxOps
    /\ DOMAIN bg_images # {}
    /\ bg_invalidated' = bg_invalidated \cup DOMAIN bg_images
    /\ bg_ops' = bg_ops + 1
    /\ UNCHANGED << bg_limit, bg_images, bg_memory_used, bg_last_rendered, bg_pc,
                    viewer_vars, renderer_vars, view_vars, image_vars,
                    budget_rest >>

BudgetNext ==
    \/ \E page \in BudgetPages : \E size \in BudgetSizes : BudgetInsert(page, size)
    \/ \E page \in BudgetPages : BudgetNone(page)
    \/ BudgetReload

(***************************************************************************)
(* The window-size poller (threads/winsize.rs) and the main loop that      *)
(* receives its notifications. TERMINAL_SIZE is the variable winsize.      *)
(***************************************************************************)

\* Resizes of the terminal in one behaviour.
MaxResizes == 3

PollInit ==
    /\ tty_size = winsize
    /\ p_wz = winsize
    /\ p_pc = "sleep"
    /\ notify = 0
    /\ p_stored = 0
    /\ m_received = 0
    /\ m_frame = << 0, 0, winsize >>
    /\ resizes = 0

\* The user resizes the terminal.
TerminalResize(ws) ==
    /\ resizes < MaxResizes
    /\ ws # tty_size
    /\ tty_size' = ws
    /\ resizes' = resizes + 1
    /\ UNCHANGED << p_wz, p_pc, notify, p_stored, m_received, m_frame,
                    viewer_vars, renderer_vars, view_vars, image_vars, poll_rest >>

\* After the sleep: tmp = terminal_tui_get_dimensions(); tmp == wz is a
\* continue, otherwise wz = tmp.
PollRead ==
    /\ p_pc = "sleep"
    /\ tty_size # p_wz
    /\ p_wz' = tty_size
    /\ p_pc' = "send"
    /\ UNCHANGED << tty_size, notify, p_stored, m_received, m_frame, resizes,
                    viewer_vars, renderer_vars, view_vars, image_vars, poll_rest >>

\* sender_winsize.send(()).
PollSend ==
    /\ p_pc = "send"
    /\ notify' = notify + 1
    /\ p_pc' = "store"
    /\ UNCHANGED << tty_size, p_wz, p_stored, m_received, m_frame, resizes,
                    viewer_vars, renderer_vars, view_vars, image_vars, poll_rest >>

\* *TERMINAL_SIZE.write() = wz.
PollStore ==
    /\ p_pc = "store"
    /\ winsize' = p_wz
    /\ p_stored' = p_stored + 1
    /\ p_pc' = "sleep"
    /\ UNCHANGED << vo, vo_event, query,
                    tty_size, p_wz, notify, m_received, m_frame, resizes,
                    viewer_vars, renderer_vars, image_vars, poll_rest >>

\* The main loop receives a notification and runs the frame it triggers:
\* bound_viewer reads TERMINAL_SIZE.
MainReceiveResize ==
    /\ notify > 0
    /\ notify' = notify - 1
    /\ m_received' = m_received + 1
    /\ m_frame' = << m_received + 1, p_stored, winsize >>
    /\ vo' = bound_viewer(vo, winsize)
    /\ vo_event' = [page |-> 0, op |-> "bound"]
    /\ UNCHANGED << winsize, query,
                    tty_size, p_wz, p_pc, p_stored, resizes,
                    viewer_vars, renderer_vars, image_vars, poll_rest >>

PollNext ==
    \/ \E ws \in WinSizes : TerminalResize(ws)
    \/ PollRead
    \/ PollSend
    \/ PollStore
    \/ MainReceiveResize

(***************************************************************************)
(* Image::new called on two threads: the load and the store of the static  *)
(* ID are separate atomic operations.                                      *)
(***************************************************************************)

\* Images constructed by the two threads in one behaviour.
MaxAllocs == 3

\* The threads that construct images: the render thread of viewer.rs and the
\* worker of threads/renderer.rs.
AllocThreads == { "viewer", "worker" }

AllocInit ==
    /\ a_pc = [t \in AllocThreads |-> "idle"]
    /\ a_tmp = [t \in AllocThreads |-> 0]
    /\ a_made = <<>>

\* Image::new on thread t: id: ID.load(Ordering::Acquire).
AllocLoadId(t) ==
    /\ a_pc[t] = "idle"
    /\ Len(a_made) < MaxAllocs
    /\ a_made' = Append(a_made, ID)
    /\ a_pc' = [a_pc EXCEPT ![t] = "load"]
    /\ UNCHANGED << a_tmp, viewer_vars, renderer_vars, view_vars, image_vars,
                    alloc_rest >>

\* Image::new on thread t: the ID.load() inside ID.store(ID.load() + 1).
AllocLoadCounter(t) ==
    /\ a_pc[t] = "load"
    /\ a_tmp' = [a_tmp EXCEPT ![t] = ID]
    /\ a_pc' = [a_pc EXCEPT ![t] = "store"]
    /\ UNCHANGED << a_made, viewer_vars, renderer_vars, view_vars, image_vars,
                    alloc_rest >>

\* Image::new on thread t: ID.store(.. + 1, Ordering::Release).
AllocStoreCounter(t) ==
    /\ a_pc[t] = "store"
    /\ ID' = NextId(a_tmp[t])
    /\ a_pc' = [a_pc EXCEPT ![t] = "idle"]
    /\ UNCHANGED << a_tmp, a_made, files, tty, stdout_lock, g_pc, g_img, g_tmp,
                    known, transfers, made, failed,
                    viewer_vars, renderer_vars, view_vars, alloc_rest >>

AllocNext ==
    \/ \E t \in AllocThreads : AllocLoadId(t)
    \/ \E t \in AllocThreads : AllocLoadCounter(t)
    \/ \E t \in AllocThreads : AllocStoreCounter(t)

RendererNext ==
    \/ \E p \in DisplayPages : SendAction(Display(p))
    \/ \E a \in ControlActions : SendAndConfirmAction(a)
    \/ ConfirmAction
    \/ WorkerRecvControl
    \/ \E ok \in BOOLEAN : WorkerDisplay(ok)
    \/ WorkerToggleAlpha
    \/ WorkerToggleInverse
    \/ WorkerLoadClear
    \/ WorkerLoad
    \/ \E k \in {0, 1} : TakeResult(k)
    \/ \E n \in PdfPageCounts : PdfChange(n)

ViewerNext ==
    \/ ThreadLoad
    \/ ThreadBound
    \/ ThreadInform
    \/ ThreadSelectReload
    \/ \E ok \in BOOLEAN : ThreadDisplay(ok)
    \/ ReceiveNone
    \/ ReceiveImage
    \/ ReceiveEnd
    \/ DisplayPagesFrame
    \/ \E d \in Docs : FileChange(d)
    \/ ReloadInitiate

\* The run of the eviction scenario: the document is ScenarioDoc and is not
\* reloaded.
ScenarioNext ==
    \/ ThreadLoad
    \/ ThreadBound
    \/ ThreadInform
    \/ \E ok \in BOOLEAN : ThreadDisplay(ok)
    \/ ReceiveImage
    \/ ReceiveEnd
    \/ DisplayPagesFrame

\* The state of the parts a specification leaves alone.
ExtInit ==
    /\ FrameInit /\ AckInit /\ ConfigIdle /\ ThrottleInit /\ QuitInit /\ CropIdle
    /\ BudgetIdle /\ PollInit /\ AllocInit

\* The viewer with its render thread; the rasterizer worker is not started.
Init == ViewerInit(Docs) /\ RendererInit({1}) /\ OffsetInit(OneOffsetDoc, OneWinSize) /\ ImageInit /\ ExtInit
Next == ViewerNext
Spec == Init /\ [][Next]_vars

\* The eviction scenario.
ScenarioInit ==
    ViewerInit({ScenarioDoc}) /\ RendererInit({1}) /\ OffsetInit(OneOffsetDoc, OneWinSize) /\ ImageInit /\ ExtInit
SpecScenario == ScenarioInit /\ [][ScenarioNext]_vars

\* A document of three pages of 300 bytes, whose images fit together under
\* memory_limit, with a viewport and a file that do not change.
SettledDoc == << 300, 300, 300 >>
SettledInit ==
    ViewerInit({SettledDoc}) /\ RendererInit({1}) /\ OffsetInit(OneOffsetDoc, OneWinSize) /\ ImageInit /\ ExtInit
SpecSettled == SettledInit /\ [][ScenarioNext]_vars

\* The rasterizer worker and its caller; the viewer is not started.
RendererOnlyInit ==
    /\ ViewerInit({ScenarioDoc}) /\ RendererInit(PdfPageCounts)
    /\ OffsetInit(OneOffsetDoc, OneWinSize) /\ ImageInit /\ ExtInit
SpecRenderer == RendererOnlyInit /\ [][RendererNext]_vars

\* The rasterizer worker with a file that may fail to load.
WorkerExitNext == RendererNext \/ WorkerLoadFail
WorkerExitInit ==
    /\ ViewerInit({ScenarioDoc}) /\ RendererInit(PdfPageCounts)
    /\ OffsetInit(OneOffsetDoc, OneWinSize) /\ ImageInit /\ ExtInit
SpecWorkerExit == WorkerExitInit /\ [][WorkerExitNext]_vars

\* The viewport alone, over every document and terminal size of the model.
OffsetOnlyInit ==
    /\ ViewerInit({ScenarioDoc}) /\ RendererInit({1})
    /\ OffsetInit(OffsetDocs, WinSizes)
    /\ ImageInit /\ ExtInit
SpecOffset == OffsetOnlyInit /\ [][OffsetNext]_vars

\* The viewport under its public operations, the terminal size fixed.
PublicOnlyInit ==
    /\ ViewerInit({ScenarioDoc}) /\ RendererInit({1})
    /\ OffsetInit(OffsetDocs, WinSizes)
    /\ ImageInit /\ ExtInit
SpecPublic == PublicOnlyInit /\ [][PublicNext]_vars

\* Image construction, re-transfer and the terminal alone.
ImageOnlyInit ==
    /\ ViewerInit({ScenarioDoc}) /\ RendererInit({1})
    /\ OffsetInit(OneOffsetDoc, OneWinSize)
    /\ ImageInit /\ ExtInit
SpecImage == ImageOnlyInit /\ [][ImageNext]_vars

\* Transfers to a terminal that may leave temp files in place.
TransferNext == ImageNext \/ TerminalIgnore
TransferOnlyInit ==
    /\ ViewerInit({ScenarioDoc}) /\ RendererInit({1})
    /\ OffsetInit(OneOffsetDoc, OneWinSize)
    /\ ImageInit /\ ExtInit
SpecTransfer == TransferOnlyInit /\ [][TransferNext]_vars

\* Frames of display_pages over every document and terminal size of the model.
FrameOnlyInit ==
    /\ ViewerInit({ScenarioDoc}) /\ RendererInit({1})
    /\ OffsetInit(OffsetDocs, WinSizes)
    /\ ImageInit /\ ExtInit
SpecFrame == FrameOnlyInit /\ [][FrameNext]_vars

\* The eviction scenario with failed acknowledgements.
AckOnlyInit ==
    /\ ViewerInit({ScenarioDoc}) /\ RendererInit({1})
    /\ OffsetInit(OneOffsetDoc, OneWinSize)
    /\ ImageInit /\ ExtInit
SpecAck == AckOnlyInit /\ [][AckNext]_vars

\* The config migration, over every user table and default of the model.
ConfigOnlyInit ==
    /\ ViewerInit({ScenarioDoc}) /\ RendererInit({1})
    /\ OffsetInit(OneOffsetDoc, OneWinSize)
    /\ ImageInit /\ FrameInit /\ AckInit /\ ConfigInit /\ ThrottleInit /\ QuitInit
    /\ CropIdle /\ BudgetIdle /\ PollInit /\ AllocInit
SpecConfig == ConfigOnlyInit /\ [][ConfigNext]_vars

\* The throttled actions alone.
ThrottleOnlyInit ==
    /\ ViewerInit({ScenarioDoc}) /\ RendererInit({1})
    /\ OffsetInit(OneOffsetDoc, OneWinSize)
    /\ ImageInit /\ ExtInit
SpecThrottle == ThrottleOnlyInit /\ [][ThrottleNext]_vars

\* Quit and the background threads alone.
QuitOnlyInit ==
    /\ ViewerInit({ScenarioDoc}) /\ RendererInit({1})
    /\ OffsetInit(OneOffsetDoc, OneWinSize)
    /\ ImageInit /\ ExtInit
SpecQuit == QuitOnlyInit /\ [][QuitNext]_vars

\* Image::display over the positions, scales and terminal sizes of the model.
CropOnlyInit ==
    /\ ViewerInit({ScenarioDoc}) /\ RendererInit({1})
    /\ OffsetInit(OneOffsetDoc, WinSizes)
    /\ ImageInit /\ FrameInit /\ AckInit /\ ConfigIdle /\ ThrottleInit /\ QuitInit
    /\ CropInit /\ BudgetIdle /\ PollInit /\ AllocInit
SpecCrop == CropOnlyInit /\ [][CropNext]_vars

\* The registry alone, under every byte budget of the model.
BudgetOnlyInit ==
    /\ ViewerInit({ScenarioDoc}) /\ RendererInit({1})
    /\ OffsetInit(OneOffsetDoc, OneWinSize)
    /\ ImageInit /\ FrameInit /\ AckInit /\ ConfigIdle /\ ThrottleInit /\ QuitInit
    /\ CropIdle /\ BudgetInit /\ PollInit /\ AllocInit
SpecBudget == BudgetOnlyInit /\ [][BudgetNext]_vars

\* The window-size poller and the main loop alone.
PollOnlyInit ==
    /\ ViewerInit({ScenarioDoc}) /\ RendererInit({1})
    /\ OffsetInit(OffsetDocs, WinSizes)
    /\ ImageInit /\ ExtInit
SpecPoll == PollOnlyInit /\ [][PollNext]_vars

\* Image::new on two threads alone.
AllocOnlyInit ==
    /\ ViewerInit({ScenarioDoc}) /\ RendererInit({1})
    /\ OffsetInit(OneOffsetDoc, OneWinSize)
    /\ ImageInit /\ ExtInit
SpecAlloc == AllocOnlyInit /\ [][AllocNext]_vars

(***************************************************************************)
(* Properties of the registry                                              *)
(***************************************************************************)

\* C1: in every reachable state memory_used equals the sum of size() over the
\* images held.
C1_MemoryUsedIsSumOfHeld == memory_used = HeldBytes

\* C3: once display_pages has consumed the notification of a load, no image
\* rasterized from an earlier load of the document is held as a fresh (not
\* invalidated) image.
C3_NoStaleImageFresh ==
    \A p \in Held : p \notin invalidated => images[p].ver >= seen_ver

\* C3 witness: the notification of a reload has been consumed, a stale image is
\* still held (invalidated) and a fresh image of the reloaded document was
\* inserted after it.
C3_Witness ==
    /\ seen_ver >= 2
    /\ \E p \in Held : p \in invalidated /\ images[p].ver < seen_ver
    /\ \E p \in Held : p \notin invalidated /\ images[p].ver >= seen_ver
    /\ last_event.op = "insert"

\* C5: invalidated is a subset of held in every reachable state.
C5_InvalidatedSubsetOfHeld == invalidated \subseteq Held

\* C6: whenever page p is in scheduled4render, a request for p is queued at the
\* render thread or its result is queued for the registry.
C6_ScheduledHasPendingRequest ==
    \A p \in scheduled4render :
        \/ p \in Range(receive_display)
        \/ \E i \in 1..Len(image_channel) : image_channel[i].page = p

\* C7: after the registry has processed one inserted image, eviction loop
\* included, memory_used < memory_limit.
C7_UnderBudgetAfterInsert ==
    (last_event.op = "insert" /\ Running) => memory_used < memory_limit

\* C7 witness: the insertion of page 2 (400 bytes) next to pages 0 and 1
\* (400 bytes each) reached 1200 bytes, evicted page 0 and completed.
C7_Witness ==
    /\ last_event = [size |-> 400, page |-> 2, op |-> "insert"]
    /\ Running
    /\ Held = {1, 2}
    /\ memory_used = 800

\* C8: after the insertion of a single image of size >= memory_limit the
\* registry holds exactly that image.
C8_OnlyNewestRemains ==
    (last_event.op = "insert" /\ last_event.size >= memory_limit /\ Running)
        => Held = {last_event.page}

\* C9: eviction is insertion-FIFO: at an insertion, a page whose held image
\* was inserted later is never dropped while a page whose held image was
\* inserted earlier is kept.
C9_EvictionIsInsertionFifo ==
    [][ (Len(image_channel') < Len(image_channel) /\ Head(image_channel).some)
        => LET full == InsertionOrder(order, Head(image_channel).page)
           IN \A i, j \in 1..Len(full) :
                  (i < j /\ full[j] \notin DOMAIN images')
                      => full[i] \notin DOMAIN images' ]_vars

\* C10 as stated: with memory_limit = 1000, after four images of 400 bytes
\* were inserted in the order A, B, C, D the held set is {B, C, D}.
C10_HeldIsBCD == scenario = 4 => Held = {1, 2, 3}

\* C10 as amended: after the four insertions the held set is {C, D}
\* (inserting C already reaches 1200 >= 1000 and evicts A; D evicts B).
C10_HeldIsCD == scenario = 4 => (Held = {2, 3} /\ memory_used = 800)

\* C10 witness: the four insertions of the scenario have happened.
C10_Witness == scenario = 4 /\ last_event = [size |-> 400, page |-> 3, op |-> "insert"]

(***************************************************************************)
(* Properties of the rasterizer worker                                     *)
(***************************************************************************)

\* C2: whenever the worker picks its next action while a control action is
\* pending, it does not pick a Display request.
C2_ControlPreemptsDisplay ==
    [][ (\E ok \in BOOLEAN : WorkerDisplay(ok)) => ~ControlPending ]_vars

\* C4: after the worker has processed ToggleAlpha or ToggleInverse, no Display
\* request that was pending at that moment is still queued (to be rasterized).
C4_ToggleDiscardsPendingDisplays ==
    \A k \in {0, 1} : \A i \in 1..Len(requests[k]) : ~requests[k][i].old

(***************************************************************************)
(* Properties of the registry under invalidation and removal               *)
(***************************************************************************)

\* C11: the invalidation of every image on a reload signal leaves the held
\* map and memory_used unchanged, only grows invalidated, and leaves
\* invalidated equal to the set of held pages.
C11_InvalidateAllKeepsHeld ==
    [][ (DisplayPagesFrame /\ reload_informer_internal > 0)
        => /\ images' = images
           /\ memory_used' = memory_used
           /\ invalidated \subseteq invalidated'
           /\ invalidated' = DOMAIN images' ]_vars

\* Number of requests for `page` queued at the render thread.
Requested(queue, page) == Cardinality({ i \in 1..Len(queue) : queue[i] = page })

\* C12: while a held page of the frame is invalidated it stays held (its stale
\* image is what the frame displays) and one Display request for it is
\* scheduled, never two; when its fresh image arrives, the page holds the new
\* image and is neither invalidated nor scheduled.
C12_StaleUntilFreshArrives ==
    [][ /\ DisplayPagesFrame =>
            \A q \in Range(FramePages(cumulative_heights, page_first, offset_y)) :
                (q \in Held /\ q \in invalidated')
                    => /\ q \in Held'
                       /\ q \in scheduled4render'
                       /\ Requested(receive_display', q) <= 1
        /\ ReceiveImage =>
            LET msg == Head(image_channel)
            IN (msg.page \in Held /\ msg.page \in invalidated)
                   => /\ msg.page \in DOMAIN images'
                      /\ images'[msg.page] = [size |-> msg.size, ver |-> msg.ver]
                      /\ msg.page \notin invalidated'
                      /\ msg.page \notin scheduled4render' ]_vars

\* C13: a None result for a held page p removes p from the held map and
\* decreases memory_used by exactly the size of p's image; every other held
\* page keeps its image.
C13_NoneRemovesHeldPage ==
    [][ (ReceiveNone /\ Head(image_channel).page \in Held)
        => LET p == Head(image_channel).page
           IN /\ DOMAIN images' = Held \ {p}
              /\ memory_used' = memory_used - images[p].size
              /\ \A q \in Held \ {p} : images'[q] = images[q] ]_vars

\* C13 witness: a None result has removed a held page and another page is
\* still held.
C13_Witness ==
    /\ last_event.op = "remove"
    /\ m_pc = "drain"
    /\ last_event.page \notin Held
    /\ Held # {}

\* C14: a None result for a page that is not held is a no-op: the registry is
\* unchanged and the program does not fail.
C14_NoneForAbsentPageIsNoOp ==
    [][ (ReceiveNone /\ Head(image_channel).page \notin Held)
        => (UNCHANGED registry_vars /\ m_pc' # "panic") ]_vars

(***************************************************************************)
(* Properties of the accepted channel                                      *)
(***************************************************************************)

\* The echoes still owed to the caller of send_and_confirm_action: its action
\* queued at the worker, plus the echoes queued on the accepted channel.
OwedEchoes(reqs, acc, a) ==
    Cardinality({ i \in 1..Len(reqs[0]) : reqs[0][i] = a }) + Len(acc)

\* C15: every control action sent with send_and_confirm_action is echoed
\* exactly once on the accepted channel (while the caller waits, exactly one
\* echo is queued or still to be produced by the worker), the echo is sent
\* when the action is received and so before its PageMetadata, a Display is
\* never echoed, and Ok is returned only for an echo equal to the action sent.
C15_ControlEchoedExactlyOnce ==
    [][ /\ c_pc' = "confirm" => OwedEchoes(requests', accepted', c_action') = 1
        /\ c_pc' = "ready" => accepted' = <<>>
        /\ \A i \in 1..Len(accepted') : accepted'[i].kind # "Display"
        /\ (w_pc = "recv" /\ w_pc' = "exec") => accepted' = Append(accepted, action')
        /\ Len(results'[0]) > Len(results[0]) => (w_pc = "load" /\ action.kind = "Load")
        /\ ConfirmAction => (c_result' = "Ok" <=> Head(accepted) = c_action) ]_vars

(***************************************************************************)
(* Properties of the viewport                                              *)
(***************************************************************************)

\* The last viewport operation ended with bound_viewer.
Bounded == vo_event.op \in {"bound", "scroll", "scale", "jump_bound"}

\* C16: after any sequence of scroll, scale, jump and resize operations that
\* ends with bound_viewer, scale >= scale_min, offset.x lies between
\* min(0, vw - max_width*scale) and max(0, vw - max_width*scale), offset.y lies
\* in [-10, max(-10, last height - vh/scale)], and page_first and page_view
\* are valid page indices.
C16_ViewportWithinBounds ==
    Bounded =>
        LET n == Len(vo.cumulative_heights)
            xlim == winsize.ws_xpixel - (vo.max_page_width * vo.scale) \div 2
            ymax == vo.cumulative_heights[n] - (winsize.ws_ypixel * 2) \div vo.scale
        IN /\ vo.scale >= scale_min
           /\ Min(0, xlim) <= vo.offset_x /\ vo.offset_x <= Max(0, xlim)
           /\ -10 <= vo.offset_y /\ vo.offset_y <= Max(-10, ymax)
           /\ vo.page_first \in 0..(n - 1)
           /\ vo.page_view \in 0..(n - 1)

\* C16 witness: zoomed in on the three-page document, a scroll was clamped at
\* the bottom and at the right.
C16_Witness ==
    /\ vo_event.op = "scroll"
    /\ vo.scale > scale_min
    /\ vo.cumulative_heights = << 100, 250, 400 >>
    /\ vo.offset_y = 400 - (winsize.ws_ypixel * 2) \div vo.scale
    /\ vo.offset_x # 0
    /\ vo.page_first = 2

\* C17: after jump(p), and still after the rebound that follows it,
\* page_first is p.
C17_JumpThenPageFirst ==
    vo_event.op \in {"jump", "jump_bound"} => vo.page_first = vo_event.page

\* C18: offset2page(y) is the smallest index i with cumulative_heights[i] >= y,
\* and the page count when y exceeds every entry; with [100, 250, 400]:
\* 0 -> 0, 100 -> 0, 101 -> 1, 399 -> 2, 1000 -> 3.
C18_Offset2PageSmallestIndex ==
    LET cum == vo.cumulative_heights
        S == { i \in 0..(Len(cum) - 1) : cum[i + 1] >= query.offset }
    IN /\ query.page = IF S = {} THEN Len(cum)
                       ELSE CHOOSE i \in S : \A k \in S : i <= k
       /\ cum = << 100, 250, 400 >> =>
              /\ query.offset = 0 => query.page = 0
              /\ query.offset = 100 => query.page = 0
              /\ query.offset = 101 => query.page = 1
              /\ query.offset = 399 => query.page = 2
              /\ query.offset = 1000 => query.page = 3

\* C18 witness: offset2page was evaluated at the exact hit 100 of [100, 250, 400].
C18_Witness ==
    /\ vo.cumulative_heights = << 100, 250, 400 >>
    /\ query = [offset |-> 100, page |-> 0]

(***************************************************************************)
(* Properties of image ids and temp files                                  *)
(***************************************************************************)

\* C19: every image constructed receives an id different from the id of every
\* image constructed before it, and ids strictly increase in construction
\* order, also when a construction fails at the transfer step.
C19_IdsStrictlyIncrease ==
    \A i, j \in 1..Len(made) : i < j => made[i] < made[j]

\* C19 witness: an image was constructed after a construction that failed at
\* its transfer.
C19_Witness ==
    /\ Len(made) >= 2
    /\ made[1] \in failed
    /\ made[2] \in known

\* C20: the temp file of an id is never created while a file with that path
\* exists, whatever the interleaving of the render thread, the main thread
\* and the terminal.
C20_NoWriteWhileFileExists ==
    [][ \A t \in GraphicsThreads : TransferCreate(t) => g_img[t] \notin files ]_vars

\* C20 witness: the main thread has written the file of an image again,
\* after the terminal deleted the file of its first transfer, while the
\* render thread waits to transfer a new image.
C20_Witness ==
    /\ g_pc["main"] = "send"
    /\ g_img["main"] \in files
    /\ transfers = 2
    /\ g_pc["render"] = "lock"


(***************************************************************************)
(* Properties of the frame                                                 *)
(***************************************************************************)

\* The pages of the commands written to the terminal, in order.
PagesOf(out) == [i \in 1..Len(out) |-> out[i][1]]

\* C21: the list display_pages returns for a frame is exactly the sequence of
\* pages for which a display or existence-check command was written to the
\* terminal in that frame, in the same order (at every point of the frame,
\* and so when the list is returned).
C21_DisplayedIsWrittenInOrder == displayed = PagesOf(written)

\* C21 witness: a frame has ended in which the page before the first was
\* checked, a page was displayed and a later page was checked.
C21_Witness ==
    /\ f_pc = "done"
    /\ written = << << 0, "check" >>, << 1, "display" >>, << 2, "check" >> >>
    /\ displayed = << 0, 1, 2 >>


(***************************************************************************)
(* Properties of schedule_transfer                                         *)
(***************************************************************************)

\* C22: handling a failed acknowledgement for page p re-transfers only p's
\* bitmap and sends one rerender wake; held, invalidated, scheduled,
\* memory_used and the FIFO are unchanged and no page is requested again.
C22_ScheduleTransferOnlyRetransfers ==
    [][(retransferred' # retransferred \/ wakes' # wakes) =>
          /\ last_event'.op = "retransfer"
          /\ retransferred' = Append(retransferred, last_event'.page)
          /\ wakes' = wakes + 1
          /\ UNCHANGED << images, invalidated, scheduled4render, memory_used,
                          last_rendered, receive_display >>]_vars

\* C22 witness: with pages 2 and 3 held, the bitmap of page 3 was
\* transferred again and one wake was sent.
C22_Witness ==
    /\ last_event = [size |-> 0, page |-> 3, op |-> "retransfer"]
    /\ retransferred = << 3 >>
    /\ wakes = 1
    /\ Held = {2, 3}



(***************************************************************************)
(* Properties of the config migration                                      *)
(***************************************************************************)

\* C23: config migration is idempotent: a second fix_config_toml on its own
\* output against the same default changes nothing and returns false.
C23_MigrationIdempotent ==
    cfg_runs >= 2 => (cfg_current = cfg_prev /\ cfg_changed = FALSE)

\* C23 witness: the first call replaced a value of the wrong variant inside a
\* sub-table and removed an unknown key; the second call has been made.
C23_Witness ==
    /\ cfg_runs = 2
    /\ cfg_default = [k \in { "a" } |-> << "Table", [j \in { "a" } |-> << "Integer", 1 >>] >>]
    /\ cfg_input = [k \in { "a", "b" } |->
                       IF k = "a" THEN << "Table", [j \in { "a" } |-> << "String", 1 >>] >>
                       ELSE << "Integer", 2 >>]
    /\ cfg_current = cfg_default



\* The result holds, for every key of the default and no other key, the
\* user's value when it existed with the variant of the default's value
\* (a sub-table reconciled in the same way), and the default's value otherwise.
RECURSIVE Reconciled(_, _, _)
Reconciled(result, current, default) ==
    /\ DOMAIN result = DOMAIN default
    /\ \A key \in DOMAIN default :
          IF /\ key \in DOMAIN current
             /\ discriminant(current[key]) = discriminant(default[key])
          THEN IF discriminant(default[key]) = "Table"
               THEN /\ discriminant(result[key]) = "Table"
                    /\ Reconciled(result[key][2], current[key][2], default[key][2])
               ELSE result[key] = current[key]
          ELSE result[key] = default[key]

\* C24: after fix_config_toml(current, default) every table of the result,
\* recursively, has exactly the keys of the corresponding default table, with
\* the user's value where it existed with the default's value type and the
\* default's value otherwise.
C24_ResultReconciledWithDefault ==
    cfg_runs >= 1 => Reconciled(cfg_current, cfg_input, cfg_default)

\* C24 witness: one call kept the user's integer, replaced a string by the
\* default's integer inside a sub-table and added the sub-table's missing key.
C24_Witness ==
    /\ cfg_runs = 1
    /\ cfg_changed
    /\ cfg_input = [k \in { "a", "b" } |->
                       IF k = "a" THEN << "Integer", 2 >>
                       ELSE << "Table", [j \in { "a" } |-> << "String", 1 >>] >>]
    /\ cfg_current = [k \in { "a", "b" } |->
                         IF k = "a" THEN << "Integer", 2 >>
                         ELSE << "Table", [j \in { "a", "b" } |->
                                              IF j = "a" THEN << "Integer", 1 >>
                                              ELSE << "String", 1 >>] >>]



(***************************************************************************)
(* Properties of the throttle                                              *)
(***************************************************************************)

\* C25: an attempt at a throttled action made after an accepted activation
\* of it is accepted exactly when at least 500 ms have passed since that
\* activation: accepted activations are at least 500 ms apart, an attempt
\* inside the window is dropped and does not restart the window.
C25_ThrottleWindow ==
    th_try[3] >= 0 => (th_try[4] <=> th_try[3] >= throttle_window)

\* C25 witness: ToggleAlpha was accepted at 500 ms, and the attempt at
\* 1000 ms, 500 ms after it, has been accepted; ToggleInverse was tried
\* in between.
C25_Witness ==
    /\ th_try = << "ToggleAlpha", 10, 5, TRUE >>
    /\ th_acc["ToggleInverse"] = 7



(***************************************************************************)
(* Properties of quit                                                      *)
(***************************************************************************)

\* C26: after RUNNING is cleared every background thread observes the flag
\* and exits without a further message or input byte: when RUNNING is clear
\* and no background thread can take a step by itself, all three have exited.
C26_ThreadsExitAfterQuit ==
    (~RUNNING /\ ~ENABLED BackgroundStep) =>
        (stdin_pc = "exit" /\ ws_pc = "exit" /\ rw_pc = "exit")



(***************************************************************************)
(* Properties of the crop rectangle                                        *)
(***************************************************************************)

\* One axis of a rectangle sent to the terminal: the snap-out paddings are at
\* most P and the crop lies inside the padded bitmap.
AxisInside(axis, len, sc, P) ==
    /\ axis.before <= P * sc
    /\ axis.after <= P * sc
    /\ axis.crop + axis.length <= len + 2 * P

\* C27: for every scale >= scale_min and every display position the snap-out
\* padding on each side is at most the global padding P and the crop
\* rectangle sent to the terminal lies inside the padded bitmap, also after
\* the terminal's cell size has changed since P was computed.
C27_CropInsidePaddedBitmap ==
    (d_out # << >> /\ d_out[1]) =>
        /\ AxisInside(d_out[2], ImageWidth(d_page), d_sc, IMAGE_PADDING)
        /\ AxisInside(d_out[3], ImageHeight(<< 100, 250, 400 >>, d_page), d_sc,
                      IMAGE_PADDING)

(***************************************************************************)
(* Properties of the requests a frame sends to the render thread           *)
(***************************************************************************)

\* Display requests for `page` that were sent and whose result the registry
\* has not received yet: queued at the render thread or answered in the image
\* channel.
Outstanding(queue, channel, page) ==
    Requested(queue, page)
    + Cardinality({ i \in 1..Len(channel) : channel[i].page = page })

\* C28: at most one Display(p) request per page p is outstanding; a frame
\* enqueues Display(p) only when (p is not held or p is invalidated) and p is
\* not scheduled, enqueues it once and adds p to scheduled, so that a held,
\* non-invalidated page is never requested.
C28_OneDisplayRequestOutstanding ==
    [][ /\ \A p \in Range(receive_display') :
               Outstanding(receive_display', image_channel', p) <= 1
        /\ \A p \in Range(receive_display') :
               Requested(receive_display', p) > Requested(receive_display, p)
               => /\ NeedsRender(Held, invalidated', scheduled4render, p)
                  /\ p \in scheduled4render'
                  /\ Requested(receive_display', p)
                         = Requested(receive_display, p) + 1 ]_vars

\* A held, invalidated page whose single Display request is outstanding.
C28_Witness ==
    \E p \in Held \cap invalidated :
        /\ p \in scheduled4render
        /\ Outstanding(receive_display, image_channel, p) = 1

\* C29: the frame that processes a document reload clears the scheduled set:
\* after it, scheduled4render holds only the pages this frame itself has
\* requested, so a page whose request was pending at the reload can be
\* requested again.
C29_ReloadClearsScheduled ==
    [][ (DisplayPagesFrame /\ reload_informer_internal > 0)
        => \A p \in scheduled4render' :
               Requested(receive_display', p) > Requested(receive_display, p)
      ]_vars

\* C30: in every state reached through the public ViewerOffset operations,
\* right after jump(p) and right after center_viewer included, offset is
\* within the clamps of bound_viewer, and after a jump page_view is the page
\* that bound_viewer computes from offset.
C30_OffsetAlwaysClamped ==
    LET cum == vo.cumulative_heights
        n == Len(cum)
        xlim == winsize.ws_xpixel - (vo.max_page_width * vo.scale) \div 2
        ymax == cum[n] - (winsize.ws_ypixel * 2) \div vo.scale
    IN /\ Min(0, xlim) <= vo.offset_x /\ vo.offset_x <= Max(0, xlim)
       /\ -10 <= vo.offset_y /\ vo.offset_y <= Max(-10, ymax)
       /\ vo_event.op = "jump"
          => vo.page_view
                 = Min(offset2page(cum, vo.offset_y
                                        + winsize.ws_ypixel \div vo.scale),
                       n - 1)

\* C31: jump(p) with p >= page_count returns an error and leaves scale,
\* offset, page_first and page_view unchanged.
C31_JumpPastEndIsRefused ==
    [][ \A p \in 0..3 :
            (Jump(p) /\ p >= Len(vo.cumulative_heights))
            => /\ vo_event'.op = "jump_err"
               /\ vo'.scale = vo.scale
               /\ vo'.offset_x = vo.offset_x
               /\ vo'.offset_y = vo.offset_y
               /\ vo'.page_first = vo.page_first
               /\ vo'.page_view = vo.page_view ]_vars

\* C31 witness: on the three-page document, scrolled down and zoomed in, a
\* jump to page 3 was refused.
C31_Witness ==
    /\ vo_event = [page |-> 3, op |-> "jump_err"]
    /\ vo.cumulative_heights = << 100, 250, 400 >>
    /\ vo.offset_y > 0
    /\ vo.scale > scale_min

(***************************************************************************)
(* Properties of the pages a frame visits                                  *)
(***************************************************************************)

\* The load_or_display! calls of the frame made for visible pages.
VisiblePart(list) == SelectSeq(list, LAMBDA e : ~e[3])

\* The top edge of a page in viewport pixels, times 2, from the cumulative
\* heights alone.
TopOf(o, page) ==
    ((IF page = 0 THEN 0 ELSE o.cumulative_heights[page]) - o.offset_y) * o.scale

PreloadPart(list) == { list[i][1] : i \in { j \in 1..Len(list) : list[j][3] } }

\* C33: at the end of a frame the pages visited as preload fringe are the
\* pages_preloaded pages before page_first and the pages_preloaded pages after
\* the last visible page, as many as exist, and none of them was processed as
\* a visible page.
C33_PreloadFringe ==
    (f_pc = "done" /\ visited # <<>>)
    => LET vis == VisiblePart(visited)
           n == Len(vo.cumulative_heights)
           first == vo.page_first
           last == first + Len(vis) - 1
           before == { p \in 0..(n - 1) :
                           first - pages_preloaded <= p /\ p < first }
           after == { p \in 0..(n - 1) :
                          last < p /\ p <= last + pages_preloaded }
       IN /\ PreloadPart(visited) = before \cup after
          /\ \A i \in 1..Len(vis) : vis[i][1] \notin PreloadPart(visited)

(***************************************************************************)
(* Properties of the results of the rasterizer worker                      *)
(***************************************************************************)

\* C34: for every Display(p) the worker processes: when p is outside the page
\* cache, exactly one Image{page: p, data: None} is sent with result priority
\* 1 and the worker keeps running; when p is in the cache and rasterization
\* succeeds, exactly one Image{page: p, data: Some} is sent with priority 1;
\* PageMetadata is only ever sent with result priority 0.
C34_DisplayResultOnPriorityOne ==
    [][ /\ (\E ok \in BOOLEAN : WorkerDisplay(ok))
           => LET a == Head(requests[BiasedReady(requests)])
              IN /\ w_pc' = "recv"
                 /\ results'[0] = results[0]
                 /\ a.page >= page_cache
                    => results'[1]
                       = Append(results[1], [page |-> a.page, kind |-> "Image",
                                             data |-> "None"])
                 /\ (a.page < page_cache /\ WorkerDisplay(TRUE))
                    => results'[1]
                       = Append(results[1], [page |-> a.page, kind |-> "Image",
                                             data |-> "Some"])
        /\ \A i \in 1..Len(results'[1]) : results'[1][i].kind = "Image"
        /\ \A i \in 1..Len(results'[0]) : results'[0][i].kind = "PageMetadata"
      ]_vars

\* C34 witness: the worker, still running, has answered a Display of a page
\* outside its one-page cache with a None image, and the result channel of
\* priority 1 holds also a rasterized image.
C34_Witness ==
    /\ w_pc = "recv"
    /\ page_cache = 1
    /\ action = Display(1)
    /\ \E i \in 1..Len(results[1]) :
           results[1][i] = [page |-> 1, kind |-> "Image", data |-> "None"]
    /\ \E i \in 1..Len(results[1]) : results[1][i].data = "Some"

(***************************************************************************)
(* Properties of the bitmap transfer                                       *)
(***************************************************************************)

\* C35: a bitmap transfer terminates: a transfer that waits for the deletion
\* of the previous temp file is never in a wait that cannot end, that is, the
\* file is gone, or the terminal still has the command that makes it delete
\* the file, also when the terminal has left a file in place.
C35_TransferWaitEnds ==
    \A t \in GraphicsThreads :
        g_pc[t] = "wait" => (g_img[t] \notin files \/ g_img[t] \in Range(tty))

(***************************************************************************)
(* Properties of the eviction loop                                         *)
(***************************************************************************)

\* C36: after any sequence of insertions, replacements after invalidation
\* and None-removals, the eviction loop finds an entry whenever it pops the
\* insertion FIFO: pop_front().unwrap() never fails on an empty queue.
C36_EvictionFindsEntry == bg_pc # "panic"

(***************************************************************************)
(* Properties of a terminated worker                                       *)
(***************************************************************************)

\* C37: send_and_confirm_action always returns: when the worker thread has
\* terminated, a call in progress is not left waiting on the accepted
\* channel with nothing queued on it (it reports an error instead of
\* blocking forever).
C37_ConfirmReturnsAfterWorkerExit ==
    (c_pc = "confirm" /\ w_pc = "exit") => accepted # <<>>

(***************************************************************************)
(* Properties of the frames after a failed rasterization                   *)
(***************************************************************************)

\* The bytes of the images of every page of a document.
RECURSIVE DocBytes(_)
DocBytes(doc) == IF doc = <<>> THEN 0 ELSE Head(doc) + DocBytes(Tail(doc))

\* C38: the frames converge to every visible page held: a frame requests
\* every page of its range that is not held and has no Display request
\* outstanding, so that a page whose rasterization failed once is requested
\* again on a later frame.
C38_FailedPageRequestedAgain ==
    [][ (DisplayPagesFrame /\ DocBytes(file) < memory_limit)
        => \A p \in Range(FramePages(cumulative_heights, page_first, offset_y)) :
               (p \notin Held /\ Outstanding(receive_display, image_channel, p) = 0)
               => Requested(receive_display', p) = 1 ]_vars

(***************************************************************************)
(* Properties of the window-size notifications                             *)
(***************************************************************************)

\* C39: when the main loop receives the k-th window-size notification, the
\* poller has already stored the size of that notification in the global
\* terminal size, in every interleaving: the frame triggered by the
\* notification never reads the size from before it.
C39_SizeStoredBeforeNotification ==
    m_frame[1] > 0 => m_frame[2] >= m_frame[1]

(***************************************************************************)
(* Properties of the id counter under two threads                          *)
(***************************************************************************)

\* C40: image id allocation is atomic: two Image::new calls that run on
\* different threads, interleaved at the granularity of the counter's load
\* and store, never obtain the same id, and the counter never goes backwards.
C40_IdAllocationAtomic ==
    [][ /\ ID' >= ID
        /\ \A i, j \in 1..Len(a_made') : i < j => a_made'[i] # a_made'[j] ]_vars

=============================================================================
